---- MODULE Spec2Model ----
(***************************************************************************)
(* Segmentation and classification core of the financial document          *)
(* processor: boundary detection (segmentation/page_analyzer.py), keyword  *)
(* sub-type detection (segmentation/subtype_detector.py), the homogeneous  *)
(* segment builder (segmentation/enhanced_segmentation.py) and the two     *)
(* multi-factor classifiers (segmentation/classifier.py and                *)
(* segmentation/classifier_fixed.py).                                      *)
(*                                                                         *)
(* Texts are TLA+ strings and keyword tests are real substring tests.      *)
(* The scores of the two classifiers are IEEE 754 doubles, computed and    *)
(* rounded operation by operation as the code does: totals that are equal  *)
(* as exact numbers can differ in the last bit and then are not a tie.     *)
(* The confidences of the sub-type detector and of the segment builder are *)
(* rationals [n, d] in lowest terms: every comparison the code makes on    *)
(* them (< 0.6, min with 1.0, max with 0.3) has the same outcome on the    *)
(* double and on the exact value, for every keyword table of the catalog.  *)
(***************************************************************************)
EXTENDS Integers, Sequences, FiniteSets, TLC

VARIABLES analyses, pc, boundaries, segments, merged, detected, result, lookup,
          results, previous, context, vision

vars == <<analyses, pc, boundaries, segments, merged, detected, result, lookup,
          results, previous, context, vision>>

\* what the calls beside boundary detection, sub-type detection, segment
\* building and classify_segment return
calls == <<lookup, results, previous, context, vision>>

(***************************************************************************)
(* Bounds                                                                  *)
(***************************************************************************)
\* pages of a document for boundary detection
MaxPages == 3
\* pages of a document for the segment builder
MaxSegPages == 3
\* snippets on the page given to the sub-type detector
MaxSnippets == 2
\* pages of a document given to the classifiers
MaxClsPages == 2
\* segments of a list given to the merge pass
MaxSegments == 3
\* page records given to the page lookup
MaxLookupRecords == 2
\* neighbour pages given to classify_ca_certificate_context
MaxNeighbours == 4
\* page images given to PageAnalyzer.analyze_all_pages
MaxImages == 2

SeqsUpTo(S, n) == UNION {[1..k -> S] : k \in 0..n}

(***************************************************************************)
(* Python values                                                           *)
(***************************************************************************)
\* Python None, and the value .get() yields for a missing string key
None == "<None>"

RECURSIVE GCD(_, _)
GCD(a, b) == IF b = 0 THEN a ELSE GCD(b, a % b)

\* the rational n/d (d > 0) in lowest terms
Rat(n, d) == LET g == GCD(IF n < 0 THEN -n ELSE n, d)
             IN  [n |-> n \div g, d |-> d \div g]

RInt(k) == [n |-> k, d |-> 1]
RAdd(a, b) == Rat(a.n * b.d + b.n * a.d, a.d * b.d)
RMul(a, b) == Rat(a.n * b.n, a.d * b.d)
RLt(a, b) == a.n * b.d < b.n * a.d
RLe(a, b) == a.n * b.d <= b.n * a.d
RMin(a, b) == IF RLt(b, a) THEN b ELSE a
RMax(a, b) == IF RLt(a, b) THEN b ELSE a

Zero == RInt(0)
One == RInt(1)

(***************************************************************************)
(* Python float: the IEEE 754 double, for the scores of the two            *)
(* classifiers, which the code compares with > after rounded divisions,    *)
(* multiplications and additions.  A natural number of any size is the     *)
(* sequence of its digits in base 2^15, lowest digit first, without        *)
(* leading zero digits (<< >> is 0).  A double x >= 0 is [m, e] with m     *)
(* such a number and x = m * 2^e: m = 0 and e = 0 for 0.0, otherwise       *)
(* 2^52 <= m < 2^53.  Each operation computes the exact result and rounds  *)
(* it to the nearest double, ties to even, as the hardware does.           *)
(***************************************************************************)
\* f(u) and f(u, v) with the arguments evaluated once, however often f uses
\* them (an operator's argument is otherwise evaluated at each use)
Once(u, f(_)) == CHOOSE r \in {f(a) : a \in {u}} : TRUE
Once2(u, v, f(_, _)) == CHOOSE r \in {f(a, b) : a \in {u}, b \in {v}} : TRUE

RECURSIVE Pow2(_)
Pow2(e) == IF e = 0 THEN 1 ELSE 2 * Pow2(e - 1)

\* the base of the digits: 2^15
LimbBase == Pow2(15)

RECURSIVE BigNorm(_)
BigNorm(N) ==
    IF N = << >> THEN N
    ELSE IF N[Len(N)] = 0 THEN BigNorm(SubSeq(N, 1, Len(N) - 1))
    ELSE N

\* a natural number below 2^30
BigOf(n) == BigNorm(<< n % LimbBase, n \div LimbBase >>)

RECURSIVE BigMulFrom(_, _, _, _)
BigMulFrom(N, c, i, carry) ==
    IF i > Len(N) THEN << carry >>
    ELSE LET t == N[i] * c + carry
         IN  << t % LimbBase >> \o BigMulFrom(N, c, i + 1, t \div LimbBase)

\* N * c for 0 <= c < 2^15
BigMulSmall(N, c) == BigNorm(BigMulFrom(N, c, 1, 0))

RECURSIVE BigDivFrom(_, _, _, _)
BigDivFrom(N, c, i, r) ==
    IF i = 0 THEN [q |-> << >>, r |-> r]
    ELSE LET t == r * LimbBase + N[i]
             low == BigDivFrom(N, c, i - 1, t % c)
         IN  [q |-> Append(low.q, t \div c), r |-> low.r]

\* quotient and remainder of N by c, 0 < c < 2^15
BigDivSmall(N, c) ==
    LET d == BigDivFrom(N, c, Len(N), 0)
    IN  [q |-> BigNorm(d.q), r |-> d.r]

RECURSIVE BigAddFrom(_, _, _, _)
BigAddFrom(X, Y, i, carry) ==
    IF i > Len(X) /\ i > Len(Y) THEN << carry >>
    ELSE LET t == (IF i <= Len(X) THEN X[i] ELSE 0)
                  + (IF i <= Len(Y) THEN Y[i] ELSE 0) + carry
         IN  << t % LimbBase >> \o BigAddFrom(X, Y, i + 1, t \div LimbBase)

BigAdd(X, Y) == BigNorm(BigAddFrom(X, Y, 1, 0))

RECURSIVE BigLessFrom(_, _, _)
BigLessFrom(X, Y, i) ==
    IF i = 0 THEN FALSE
    ELSE IF X[i] # Y[i] THEN X[i] < Y[i]
    ELSE BigLessFrom(X, Y, i - 1)

BigLess(X, Y) ==
    IF Len(X) # Len(Y) THEN Len(X) < Len(Y) ELSE BigLessFrom(X, Y, Len(X))

RECURSIVE BitLenSmall(_)
BitLenSmall(x) == IF x = 0 THEN 0 ELSE 1 + BitLenSmall(x \div 2)

\* the number of binary digits of N
BitLen(N) ==
    IF N = << >> THEN 0 ELSE 15 * (Len(N) - 1) + BitLenSmall(N[Len(N)])

\* N * 2^s
BigShl(N, s) ==
    IF N = << >> THEN N
    ELSE [k \in 1..(s \div 15) |-> 0] \o BigMulSmall(N, Pow2(s % 15))

\* N \div 2^s, and whether a binary digit 1 was dropped
BigShr(N, s) ==
    LET k == s \div 15
        d == BigDivSmall(SubSeq(N, k + 1, Len(N)), Pow2(s % 15))
    IN  [q |-> d.q,
         lost |-> d.r # 0 \/ \E i \in 1..k : i <= Len(N) /\ N[i] # 0]

FZero == [m |-> << >>, e |-> 0]

\* the double nearest to N * 2^e (a double holds 53 binary digits), ties to
\* even; sticky: the exact value is a little above N * 2^e
FRound(N, e, sticky) ==
    LET L == BitLen(N)
    IN  IF L = 0 THEN FZero
        ELSE IF L <= 53
        THEN [m |-> BigShl(N, 53 - L), e |-> e - (53 - L)]
        ELSE LET d == L - 53
                 withGuard == BigShr(N, d - 1)
                 guard == withGuard.q[1] % 2
                 kept == BigShr(withGuard.q, 1).q
                 rest == withGuard.lost \/ sticky
                 up == guard = 1 /\ (rest \/ kept[1] % 2 = 1)
                 next == BigAdd(kept, << 1 >>)
             IN  IF ~up THEN [m |-> kept, e |-> e + d]
                 ELSE IF BitLen(next) > 53
                 THEN [m |-> BigShr(next, 1).q, e |-> e + d + 1]
                 ELSE [m |-> next, e |-> e + d]

\* float(n) for an int 0 <= n < 2^30
FInt(n) == Once(n, LAMBDA k : FRound(BigOf(k), 0, FALSE))

\* x * c for an int 0 <= c < 2^15
FMulInt(x, c) == Once(x, LAMBDA a : FRound(BigMulSmall(a.m, c), a.e, FALSE))

\* x / c for an int 0 < c < 2^15
FDivInt(x, c) ==
    Once(x, LAMBDA a :
        IF a.m = << >> THEN FZero
        ELSE Once(BigDivSmall(BigShl(a.m, 30), c), LAMBDA d :
                 FRound(d.q, a.e - 30, d.r # 0)))

\* x + y
FAdd(x, y) ==
    Once2(x, y, LAMBDA a, b :
        IF a.m = << >> THEN b
        ELSE IF b.m = << >> THEN a
        ELSE LET e == IF a.e < b.e THEN a.e ELSE b.e
             IN  FRound(BigAdd(BigShl(a.m, a.e - e), BigShl(b.m, b.e - e)), e, FALSE))

\* x < y
FLt(x, y) ==
    Once2(x, y, LAMBDA a, b :
        IF b.m = << >> THEN FALSE
        ELSE IF a.m = << >> THEN TRUE
        ELSE IF a.e # b.e THEN a.e < b.e
        ELSE BigLess(a.m, b.m))

FLe(x, y) == ~FLt(y, x)

\* min(x, y) of Python: y only when y < x
FMin(x, y) == Once2(x, y, LAMBDA a, b : IF FLt(b, a) THEN b ELSE a)

\* the int a over the int b as a float: a / b
FRatio(a, b) == FDivInt(FInt(a), b)

(***************************************************************************)
(* str.lower(), ' '.join(list) and the substring test "kw in text"         *)
(***************************************************************************)
LowerChar(c) ==
    CASE c = "A" -> "a" [] c = "B" -> "b" [] c = "C" -> "c" [] c = "D" -> "d"
      [] c = "E" -> "e" [] c = "F" -> "f" [] c = "G" -> "g" [] c = "H" -> "h"
      [] c = "I" -> "i" [] c = "J" -> "j" [] c = "K" -> "k" [] c = "L" -> "l"
      [] c = "M" -> "m" [] c = "N" -> "n" [] c = "O" -> "o" [] c = "P" -> "p"
      [] c = "Q" -> "q" [] c = "R" -> "r" [] c = "S" -> "s" [] c = "T" -> "t"
      [] c = "U" -> "u" [] c = "V" -> "v" [] c = "W" -> "w" [] c = "X" -> "x"
      [] c = "Y" -> "y" [] c = "Z" -> "z" [] OTHER -> c

\* lower() of the characters lo..hi of s, by halves
RECURSIVE LowerRange(_, _, _)
LowerRange(s, lo, hi) ==
    IF lo > hi THEN ""
    ELSE IF lo = hi THEN LowerChar(SubSeq(s, lo, lo))
    ELSE LET mid == (lo + hi) \div 2
         IN  LowerRange(s, lo, mid) \o LowerRange(s, mid + 1, hi)

Lower(s) == LowerRange(s, 1, Len(s))

RECURSIVE JoinFrom(_, _)
JoinFrom(parts, i) ==
    IF i > Len(parts) THEN ""
    ELSE IF i = Len(parts) THEN parts[i]
    ELSE parts[i] \o " " \o JoinFrom(parts, i + 1)

Join(parts) == JoinFrom(parts, 1)

Contains(text, kw) ==
    \E i \in 1..(Len(text) - Len(kw) + 1) : SubSeq(text, i, i + Len(kw) - 1) = kw

\* sum(1 for kw in keywords if kw in combined_text)
CountMatches(keywords, text) ==
    Cardinality({i \in 1..Len(keywords) : Contains(text, keywords[i])})

(***************************************************************************)
(* config/document_types_enhanced.py                                       *)
(***************************************************************************)
MainDocumentType == [TURNOVER |-> "TURNOVER", WORK_ORDER |-> "WORK_ORDER",
                     UNKNOWN |-> "UNKNOWN"]

\* enum members in declaration order; a member is <<family, name>>
TurnoverSubType ==
    << <<"T", "PL_STATEMENT">>, <<"T", "CA_CERTIFICATE">>, <<"T", "BALANCE_SHEET">>,
       <<"T", "AUDITOR_REPORT">>, <<"T", "INCOME_TAX">>, <<"T", "OTHER">> >>

WorkOrderSubType ==
    << <<"W", "PURCHASE_ORDER">>, <<"W", "COMPLETION_CERTIFICATE">>,
       <<"W", "WORK_CONTRACT">>, <<"W", "STATEMENT_OF_WORK">>,
       <<"W", "CA_CERTIFICATE">>, <<"W", "OTHER">> >>

\* member.value
SubTypeValue(st) ==
    CASE st[2] = "PL_STATEMENT" -> "P&L Statement"
      [] st[2] = "CA_CERTIFICATE" -> "CA Certificate"
      [] st[2] = "BALANCE_SHEET" -> "Balance Sheet"
      [] st[2] = "AUDITOR_REPORT" -> "Auditor's Report"
      [] st[2] = "INCOME_TAX" -> "Income Tax Related"
      [] st[2] = "PURCHASE_ORDER" -> "Purchase Order"
      [] st[2] = "COMPLETION_CERTIFICATE" -> "Completion Certificate"
      [] st[2] = "WORK_CONTRACT" -> "Work Contract"
      [] st[2] = "STATEMENT_OF_WORK" -> "Statement of Work"
      [] OTHER -> "Other"

\* SUBTYPE_KEYWORDS.get(subtype, [])
SUBTYPE_KEYWORDS(st) ==
    CASE st = <<"T", "PL_STATEMENT">> ->
           << "profit and loss", "p&l", "statement of profit and loss",
              "income statement", "revenue from operations", "expenses",
              "profit for the year", "loss for the year", "total revenue",
              "operating profit", "net profit", "ebitda" >>
      [] st = <<"T", "BALANCE_SHEET">> ->
           << "balance sheet", "financial position", "assets", "liabilities",
              "equity and liabilities", "shareholders funds", "share capital",
              "reserves and surplus", "current assets", "non-current assets",
              "property plant and equipment" >>
      [] st = <<"T", "CA_CERTIFICATE">> ->
           << "chartered accountant", "ca certificate", "certification",
              "certified that", "examined", "audit", "icai", "membership number",
              "firm registration number", "udin" >>
      [] st = <<"T", "AUDITOR_REPORT">> ->
           << "auditor's report", "independent auditor", "audit opinion",
              "audited financial statements", "basis for opinion",
              "key audit matters", "material uncertainty", "emphasis of matter" >>
      [] st = <<"T", "INCOME_TAX">> ->
           << "income tax", "form 16", "form 16a", "tds certificate",
              "tax deducted at source", "tds", "income tax return", "itr",
              "tax computation", "advance tax", "assessment year", "pan" >>
      [] st = <<"W", "PURCHASE_ORDER">> ->
           << "purchase order", "po#", "order no", "order number",
              "vendor", "supplier", "buyer", "delivery address",
              "items", "quantity", "rate", "amount", "grand total",
              "gstin", "gst", "invoice" >>
      [] st = <<"W", "COMPLETION_CERTIFICATE">> ->
           << "completion certificate", "work completion", "certificate of completion",
              "completed work", "satisfactory completion", "work done",
              "issued to", "certified that the work" >>
      [] st = <<"W", "WORK_CONTRACT">> ->
           << "contract", "agreement", "contract agreement", "party of the first part",
              "party of the second part", "contractor", "contractee",
              "terms and conditions", "scope of work", "contract value",
              "contract period", "penalty clause" >>
      [] st = <<"W", "STATEMENT_OF_WORK">> ->
           << "statement of work", "sow", "scope of work", "work breakdown",
              "deliverables", "milestones", "project scope", "work description",
              "tasks", "activities", "work items" >>
      [] st = <<"W", "CA_CERTIFICATE">> ->
           << "chartered accountant", "ca certificate", "certification",
              "certified that", "examined", "work order", "turnover certificate" >>
      [] OTHER -> << >>

\* the order in which SUBTYPE_KEYWORDS declares its keys
KeywordTableOrder ==
    << <<"T", "PL_STATEMENT">>, <<"T", "BALANCE_SHEET">>, <<"T", "CA_CERTIFICATE">>,
       <<"T", "AUDITOR_REPORT">>, <<"T", "INCOME_TAX">>,
       <<"W", "PURCHASE_ORDER">>, <<"W", "COMPLETION_CERTIFICATE">>,
       <<"W", "WORK_CONTRACT">>, <<"W", "STATEMENT_OF_WORK">>,
       <<"W", "CA_CERTIFICATE">> >>

\* SUBTYPE_TO_MAINTYPE.get(subtype): the table has no entry for the two OTHER
\* members
SUBTYPE_TO_MAINTYPE(st) ==
    CASE st = <<"T", "PL_STATEMENT">> -> MainDocumentType.TURNOVER
      [] st = <<"T", "CA_CERTIFICATE">> -> MainDocumentType.TURNOVER
      [] st = <<"T", "BALANCE_SHEET">> -> MainDocumentType.TURNOVER
      [] st = <<"T", "AUDITOR_REPORT">> -> MainDocumentType.TURNOVER
      [] st = <<"T", "INCOME_TAX">> -> MainDocumentType.TURNOVER
      [] st = <<"W", "PURCHASE_ORDER">> -> MainDocumentType.WORK_ORDER
      [] st = <<"W", "COMPLETION_CERTIFICATE">> -> MainDocumentType.WORK_ORDER
      [] st = <<"W", "WORK_CONTRACT">> -> MainDocumentType.WORK_ORDER
      [] st = <<"W", "STATEMENT_OF_WORK">> -> MainDocumentType.WORK_ORDER
      [] st = <<"W", "CA_CERTIFICATE">> -> MainDocumentType.WORK_ORDER
      [] OTHER -> None

\* sum(1 for p in page_classifications if p.get('main_type') == value)
MainTypeCount(page_classifications, value) ==
    Cardinality({i \in 1..Len(page_classifications) :
                    page_classifications[i].main_type = value})

\* EXTRACTION_SUBTYPES[main_type]; the keys are TURNOVER and WORK_ORDER
EXTRACTION_SUBTYPES(main_type) ==
    IF main_type = MainDocumentType.TURNOVER
    THEN << <<"T", "PL_STATEMENT">>, <<"T", "CA_CERTIFICATE">> >>
    ELSE << <<"W", "PURCHASE_ORDER">>, <<"W", "COMPLETION_CERTIFICATE">>,
            <<"W", "WORK_CONTRACT">>, <<"W", "STATEMENT_OF_WORK">>,
            <<"W", "CA_CERTIFICATE">> >>

\* a wrong eligibility test: a label that starts with a listed value counts
RequiresExtractionByPrefix(main_type, sub_type) ==
    IF main_type \notin {MainDocumentType.TURNOVER, MainDocumentType.WORK_ORDER}
    THEN FALSE
    ELSE LET extraction_list == EXTRACTION_SUBTYPES(main_type)
         IN  \E i \in 1..Len(extraction_list) :
                LET value == SubTypeValue(extraction_list[i])
                IN  /\ Len(value) <= Len(sub_type)
                    /\ SubSeq(sub_type, 1, Len(value)) = value

\* requires_extraction(main_type, sub_type); main_type is an enum member or
\* None
requires_extraction(main_type, sub_type) ==
    IF main_type \notin {MainDocumentType.TURNOVER, MainDocumentType.WORK_ORDER}
    THEN FALSE
    ELSE LET extraction_list == EXTRACTION_SUBTYPES(main_type)
         IN  \E i \in 1..Len(extraction_list) :
                SubTypeValue(extraction_list[i]) = sub_type

\* get_subtype_priority(main_type, sub_type): priority_map.get(sub_type, 99);
\* main_type is not read
get_subtype_priority(main_type, sub_type) ==
    CASE sub_type = "P&L Statement" -> 1
      [] sub_type = "CA Certificate" -> 2
      [] sub_type = "Balance Sheet" -> 3
      [] sub_type = "Auditor's Report" -> 4
      [] sub_type = "Income Tax Related" -> 5
      [] sub_type = "Other" -> 10
      [] sub_type = "Purchase Order" -> 1
      [] sub_type = "Completion Certificate" -> 2
      [] sub_type = "Work Contract" -> 2
      [] sub_type = "Statement of Work" -> 2
      [] OTHER -> 99

\* a wrong context rule: an ambiguous context gives WORK_ORDER
classify_ca_certificate_for_work_order(page_classifications) ==
    IF MainTypeCount(page_classifications, MainDocumentType.TURNOVER)
         > MainTypeCount(page_classifications, MainDocumentType.WORK_ORDER)
    THEN MainDocumentType.TURNOVER
    ELSE MainDocumentType.WORK_ORDER

classify_ca_certificate_context(page_classifications) ==
    LET turnover_count == MainTypeCount(page_classifications, MainDocumentType.TURNOVER)
        wo_count == MainTypeCount(page_classifications, MainDocumentType.WORK_ORDER)
    IN  IF turnover_count > wo_count THEN MainDocumentType.TURNOVER
        ELSE IF wo_count > turnover_count THEN MainDocumentType.WORK_ORDER
        ELSE MainDocumentType.TURNOVER

(***************************************************************************)
(* Page records.  A record is what PageAnalyzer.analyze_page returns or    *)
(* what a caller builds by hand: success, an optional top-level            *)
(* page_number (0 = key absent) and, for a succeeded page, the payload     *)
(* "data".  A payload field holds the value .get() yields when its key is  *)
(* absent; empty = TRUE is the empty dict {}.                              *)
(***************************************************************************)
EmptyData ==
    [empty |-> TRUE, page_number |-> 0, page_type |-> None,
     document_type_hints |-> {}, key_text_snippets |-> << >>,
     has_tables |-> FALSE, has_forms |-> FALSE, is_document_start |-> FALSE,
     main_type |-> None, sub_type |-> None, sub_type_confidence |-> Zero,
     detection_method |-> None]

FailedPage(pn) == [success |-> FALSE, page_number |-> pn, data |-> EmptyData]

OkPage(pn, data) == [success |-> TRUE, page_number |-> pn, data |-> data]

(***************************************************************************)
(* utils/vlm_provider.py: extract_json_from_response.  A text is the       *)
(* sequence of its characters, each written as a one-character string; the *)
(* grave accent, which a TLA+ string cannot hold, is written Grave.        *)
(* Positions are Python's, counted from 0.                                 *)
(***************************************************************************)
Text(s) == [i \in 1..Len(s) |-> SubSeq(s, i, i)]

Grave == "GRAVE ACCENT"

\* the markdown fence and the fence that opens a json block
Fence == <<Grave, Grave, Grave>>

JsonFence == Fence \o Text("json")

\* str.find(sub, start)
Find(s, sub, start) ==
    LET at == {i \in start..(Len(s) - Len(sub)) : SubSeq(s, i + 1, i + Len(sub)) = sub}
    IN  IF at = {} THEN -1 ELSE CHOOSE i \in at : \A j \in at : i <= j

\* str.rfind(sub)
RFind(s, sub) ==
    LET at == {i \in 0..(Len(s) - Len(sub)) : SubSeq(s, i + 1, i + Len(sub)) = sub}
    IN  IF at = {} THEN -1 ELSE CHOOSE i \in at : \A j \in at : j <= i

\* s[start:end] for start >= 0; a negative end counts from the end of s
Slice(s, start, end) ==
    LET stop == IF end < 0 THEN Len(s) + end ELSE IF end > Len(s) THEN Len(s) ELSE end
    IN  IF start >= stop THEN << >> ELSE SubSeq(s, start + 1, stop)

IsSpace(c) == c \in {" ", "\t", "\n", "\r"}

\* str.strip()
RECURSIVE Strip(_)
Strip(s) ==
    IF Len(s) = 0 THEN s
    ELSE IF IsSpace(s[1]) THEN Strip(SubSeq(s, 2, Len(s)))
    ELSE IF IsSpace(s[Len(s)]) THEN Strip(SubSeq(s, 1, Len(s) - 1))
    ELSE s

Parsed(kind, data) == [raised |-> None, kind |-> kind, data |-> data]

Raised(exception) == [raised |-> exception, kind |-> None, data |-> EmptyData]

\* the payload a page analysis response carries
PageDocument == Text("{\"page_type\": \"FINANCIAL\", \"is_document_start\": true}")

\* json.loads on the texts the responses hold: white space around a document
\* is skipped, the documents below are decoded, every other text is one that
\* json.loads rejects with JSONDecodeError
json_loads(text) ==
    LET doc == Strip(text)
    IN  CASE doc = PageDocument ->
               Parsed("dict", [EmptyData EXCEPT !.empty = FALSE,
                                                !.page_type = "FINANCIAL",
                                                !.is_document_start = TRUE])
          [] doc = Text("{}") -> Parsed("dict", EmptyData)
          [] doc = Text("[]") -> Parsed("list", EmptyData)
          [] OTHER -> Raised("JSONDecodeError")

extract_json_from_response(response) ==
    LET whole == json_loads(response)
    IN  IF whole.raised = None THEN whole
        ELSE IF Find(response, JsonFence, 0) # -1
        THEN LET start == Find(response, JsonFence, 0) + 7
                 end == Find(response, Fence, start)
             IN  json_loads(Strip(Slice(response, start, end)))
        ELSE IF Find(response, Fence, 0) # -1
        THEN LET start == Find(response, Fence, 0) + 3
                 end == Find(response, Fence, start)
             IN  json_loads(Strip(Slice(response, start, end)))
        ELSE LET start == Find(response, Text("{"), 0)
                 end == RFind(response, Text("}")) + 1
             IN  IF start # -1 /\ end > start
                 THEN json_loads(Slice(response, start, end))
                 ELSE Raised("ValueError")

(***************************************************************************)
(* segmentation/page_analyzer.py: analyze_page, analyze_all_pages.  A      *)
(* result is what ModelManager.analyze_image_with_fallback returned for    *)
(* the page: success and, when it succeeded, the response text.            *)
(***************************************************************************)
Returned(record) == [raised |-> None, record |-> record]

Escaped(exception) == [raised |-> exception, record |-> FailedPage(0)]

\* lines 52-93: the record of page page_number, or the exception that
\* leaves analyze_page
analyze_page(vlm_result, page_number) ==
    IF ~vlm_result.success THEN Returned(FailedPage(page_number))
    ELSE LET analysis == extract_json_from_response(vlm_result.response)
         IN  IF analysis.raised = "JSONDecodeError"
             THEN Returned(FailedPage(page_number))
             ELSE IF analysis.raised # None THEN Escaped(analysis.raised)
             ELSE IF analysis.kind # "dict" THEN Escaped("TypeError")
             ELSE Returned(OkPage(0, [analysis.data EXCEPT !.empty = FALSE,
                                                           !.page_number = page_number]))

\* lines 113-115 from page i on
RECURSIVE AnalyzeFrom(_, _, _)
AnalyzeFrom(vlm_results, i, done) ==
    IF i > Len(vlm_results) THEN [raised |-> None, analyses |-> done]
    ELSE LET analysis_result == analyze_page(vlm_results[i], i)
         IN  IF analysis_result.raised # None
             THEN [raised |-> analysis_result.raised, analyses |-> << >>]
             ELSE AnalyzeFrom(vlm_results, i + 1, Append(done, analysis_result.record))

analyze_all_pages(vlm_results) == AnalyzeFrom(vlm_results, 1, << >>)

(***************************************************************************)
(* segmentation/subtype_detector.py                                        *)
(***************************************************************************)
\* iteration order of the two scoring loops: the insertion order of scores
ScoreOrder == TurnoverSubType \o WorkOrderSubType

\* matches per sub-type, by position in ScoreOrder (0 = not in scores)
SubtypeScores(combined_text) ==
    [i \in 1..Len(ScoreOrder) |->
        CountMatches(SUBTYPE_KEYWORDS(ScoreOrder[i]), combined_text)]

MaxScore(scores) ==
    CHOOSE m \in {scores[i] : i \in DOMAIN scores} :
        \A i \in DOMAIN scores : scores[i] <= m

\* a wrong tie-break: the last key holding the maximum
BestSubtypeLast(scores) ==
    CHOOSE i \in DOMAIN scores :
        /\ scores[i] = MaxScore(scores)
        /\ \A j \in DOMAIN scores : scores[j] = MaxScore(scores) => j <= i

\* max(scores, key=scores.get): the first key in insertion order that holds
\* the maximum
BestSubtype(scores) ==
    CHOOSE i \in DOMAIN scores :
        /\ scores[i] = MaxScore(scores)
        /\ \A j \in DOMAIN scores : scores[j] = MaxScore(scores) => i <= j

\* a wrong confidence: the cap at 1.0 is dropped
SubtypeConfidenceNoCap(max_matches, total_keywords) ==
    RMax(Rat(10 * max_matches, 3 * total_keywords), Rat(3, 10))

\* a wrong confidence: the 0.3 floor is dropped
SubtypeConfidenceNoFloor(max_matches, total_keywords) ==
    RMin(Rat(10 * max_matches, 3 * total_keywords), One)

\* min(max_matches / (total_keywords * 0.3), 1.0), then max(confidence, 0.3)
SubtypeConfidence(max_matches, total_keywords) ==
    RMax(RMin(Rat(10 * max_matches, 3 * total_keywords), One), Rat(3, 10))

NoSubtype == [main_type |-> None, sub_type |-> None, confidence |-> Zero]

detect_subtype_from_keywords(text_snippets) ==
    IF text_snippets = << >> THEN NoSubtype
    ELSE LET combined_text == Lower(Join(text_snippets))
             scores == SubtypeScores(combined_text)
         IN  IF \A i \in DOMAIN scores : scores[i] = 0 THEN NoSubtype
             ELSE LET best_subtype == ScoreOrder[BestSubtype(scores)]
                      max_matches == MaxScore(scores)
                      total_keywords == Len(SUBTYPE_KEYWORDS(best_subtype))
                  IN  [main_type |-> IF best_subtype[1] = "T"
                                     THEN MainDocumentType.TURNOVER
                                     ELSE MainDocumentType.WORK_ORDER,
                       sub_type |-> SubTypeValue(best_subtype),
                       confidence |-> SubtypeConfidence(max_matches, total_keywords)]

\* truthiness of a str-or-None value
Truthy(s) == s # None /\ s # ""

enhance_page_analysis_with_subtype(page_analysis) ==
    IF ~page_analysis.success THEN page_analysis
    ELSE LET data == page_analysis.data
             det == detect_subtype_from_keywords(data.key_text_snippets)
         IN  IF Truthy(det.main_type) /\ Truthy(det.sub_type)
             THEN [page_analysis EXCEPT
                     !.data.empty = FALSE,
                     !.data.main_type = det.main_type,
                     !.data.sub_type = det.sub_type,
                     !.data.sub_type_confidence = det.confidence,
                     !.data.detection_method = "keyword"]
             ELSE [page_analysis EXCEPT
                     !.data.empty = FALSE,
                     !.data.main_type = MainDocumentType.UNKNOWN,
                     !.data.sub_type = "Unknown",
                     !.data.sub_type_confidence = Zero,
                     !.data.detection_method = "none"]

(***************************************************************************)
(* segmentation/page_analyzer.py: PageAnalyzer.get_document_boundaries     *)
(***************************************************************************)
\* a wrong scan: failed pages open a boundary too and page 1 is not exempt
RECURSIVE BoundaryScanEager(_, _, _, _)
BoundaryScanEager(an, i, current_start, bnds) ==
    IF i > Len(an)
    THEN IF current_start <= Len(an)
         THEN Append(bnds, <<current_start, Len(an)>>) ELSE bnds
    ELSE IF an[i].data.is_document_start
         THEN BoundaryScanEager(an, i + 1, i, Append(bnds, <<current_start, i - 1>>))
         ELSE BoundaryScanEager(an, i + 1, current_start, bnds)

\* a wrong scan: the start hint of page 1 closes a boundary as well
RECURSIVE BoundaryScanFromFirst(_, _, _, _)
BoundaryScanFromFirst(an, i, current_start, bnds) ==
    IF i > Len(an)
    THEN IF current_start <= Len(an)
         THEN Append(bnds, <<current_start, Len(an)>>) ELSE bnds
    ELSE IF ~an[i].success
         THEN BoundaryScanFromFirst(an, i + 1, current_start, bnds)
         ELSE IF an[i].data.is_document_start
              THEN BoundaryScanFromFirst(an, i + 1, i,
                                         Append(bnds, <<current_start, i - 1>>))
              ELSE BoundaryScanFromFirst(an, i + 1, current_start, bnds)

\* the loop of lines 138-148 from page i on, then the final boundary
RECURSIVE BoundaryScan(_, _, _, _)
BoundaryScan(an, i, current_start, bnds) ==
    IF i > Len(an)
    THEN IF current_start <= Len(an)
         THEN Append(bnds, <<current_start, Len(an)>>) ELSE bnds
    ELSE IF ~an[i].success
         THEN BoundaryScan(an, i + 1, current_start, bnds)
         ELSE IF i > 1 /\ an[i].data.is_document_start
              THEN BoundaryScan(an, i + 1, i, Append(bnds, <<current_start, i - 1>>))
              ELSE BoundaryScan(an, i + 1, current_start, bnds)

get_document_boundaries(an) == BoundaryScan(an, 1, 1, << >>)

(***************************************************************************)
(* segmentation/enhanced_segmentation.py                                   *)
(***************************************************************************)
\* the dict opened at lines 53-60 and 70-77 (segment_id 0 = key absent)
NewSegment(i, data) ==
    [start_page |-> i, end_page |-> i, main_type |-> data.main_type,
     sub_type |-> data.sub_type, pages |-> <<i>>,
     confidence |-> data.sub_type_confidence, segment_id |-> 0]

\* a wrong running confidence: the sum, never halved
ExtendSegmentSum(seg, i, confidence) ==
    [seg EXCEPT !.end_page = i, !.pages = Append(@, i),
                !.confidence = RAdd(@, confidence)]

\* lines 80-85: the page joins the open segment
ExtendSegment(seg, i, confidence) ==
    [seg EXCEPT !.end_page = i, !.pages = Append(@, i),
                !.confidence = RMul(RAdd(@, confidence), Rat(1, 2))]

\* the loop of lines 37-85 from page i on; open = FALSE while current_segment
\* is None
RECURSIVE SegmentScan(_, _, _, _, _)
SegmentScan(an, i, open, current_segment, segs) ==
    IF i > Len(an)
    THEN IF open THEN Append(segs, current_segment) ELSE segs
    ELSE IF ~an[i].success
         THEN SegmentScan(an, i + 1, open, current_segment, segs)
         ELSE LET data == an[i].data
              IN  IF ~open
                  THEN SegmentScan(an, i + 1, TRUE, NewSegment(i, data), segs)
                  ELSE IF \/ data.sub_type # current_segment.sub_type
                          \/ data.main_type # current_segment.main_type
                       THEN SegmentScan(an, i + 1, TRUE, NewSegment(i, data),
                                        Append(segs, current_segment))
                       ELSE SegmentScan(an, i + 1, TRUE,
                                ExtendSegment(current_segment, i,
                                              data.sub_type_confidence),
                                segs)

create_homogeneous_segments(page_analyses) ==
    IF page_analyses = << >> THEN << >>
    ELSE SegmentScan(page_analyses, 1, FALSE, NewSegment(0, EmptyData), << >>)

\* min_confidence = 0.6, the default of merge_single_page_segments
DefaultMinConfidence == Rat(6, 10)

\* str(x) inside an f-string
Str(x) == IF x = None THEN "None" ELSE x

\* a wrong absorption: the confidence of prev is averaged with the absorbed one
AbsorbAverageConfidence(prev, current) ==
    [prev EXCEPT !.end_page = current.end_page,
                 !.pages = @ \o current.pages,
                 !.sub_type = Str(@) \o " + " \o Str(current.sub_type),
                 !.confidence = RMul(RAdd(@, current.confidence), Rat(1, 2))]

\* a wrong absorption: the label of prev is left as it was
AbsorbKeepLabel(prev, current) ==
    [prev EXCEPT !.end_page = current.end_page,
                 !.pages = @ \o current.pages]

\* lines 133-135: prev absorbs current
Absorb(prev, current) ==
    [prev EXCEPT !.end_page = current.end_page,
                 !.pages = @ \o current.pages,
                 !.sub_type = Str(@) \o " + " \o Str(current.sub_type)]

\* a wrong merge pass: an entry that has absorbed a segment absorbs no other
RECURSIVE MergeScanOnce(_, _, _, _)
MergeScanOnce(segs, i, out, min_confidence) ==
    IF i > Len(segs) THEN out
    ELSE LET current == segs[i]
             is_single_page == (current.end_page - current.start_page) = 0
             is_low_conf == RLt(current.confidence, min_confidence)
         IN  IF /\ is_single_page /\ is_low_conf /\ i > 1
                /\ out[Len(out)].main_type = current.main_type
                /\ out[Len(out)] = segs[i - 1]
             THEN MergeScanOnce(segs, i + 1,
                            [out EXCEPT ![Len(out)] = Absorb(@, current)],
                            min_confidence)
             ELSE MergeScanOnce(segs, i + 1, Append(out, current), min_confidence)

\* a wrong merge pass: a confidence equal to the threshold is absorbed too
RECURSIVE MergeScanAtThreshold(_, _, _, _)
MergeScanAtThreshold(segs, i, out, min_confidence) ==
    IF i > Len(segs) THEN out
    ELSE LET current == segs[i]
             is_single_page == (current.end_page - current.start_page) = 0
             is_low_conf == RLe(current.confidence, min_confidence)
         IN  IF /\ is_single_page /\ is_low_conf /\ i > 1
                /\ out[Len(out)].main_type = current.main_type
             THEN MergeScanAtThreshold(segs, i + 1,
                            [out EXCEPT ![Len(out)] = Absorb(@, current)],
                            min_confidence)
             ELSE MergeScanAtThreshold(segs, i + 1, Append(out, current),
                                       min_confidence)

\* the while loop of lines 120-141 from index i on (i is 1-based here)
RECURSIVE MergeScan(_, _, _, _)
MergeScan(segs, i, out, min_confidence) ==
    IF i > Len(segs) THEN out
    ELSE LET current == segs[i]
             is_single_page == (current.end_page - current.start_page) = 0
             is_low_conf == RLt(current.confidence, min_confidence)
         IN  IF /\ is_single_page /\ is_low_conf /\ i > 1
                /\ out[Len(out)].main_type = current.main_type
             THEN MergeScan(segs, i + 1,
                            [out EXCEPT ![Len(out)] = Absorb(@, current)],
                            min_confidence)
             ELSE MergeScan(segs, i + 1, Append(out, current), min_confidence)

merge_single_page_segments(segs, min_confidence) ==
    IF Len(segs) <= 1 THEN segs ELSE MergeScan(segs, 1, << >>, min_confidence)

\* the input list after the call: prev is the very dict the input list holds,
\* so an absorbing segment is changed in the input list too
InputAfterMerge(segs, out) ==
    [j \in 1..Len(segs) |->
        IF \E k \in 1..Len(out) : out[k].start_page = segs[j].start_page
        THEN out[CHOOSE k \in 1..Len(out) : out[k].start_page = segs[j].start_page]
        ELSE segs[j]]

\* lines 190-191
AddSegmentIds(segs) == [i \in 1..Len(segs) |-> [segs[i] EXCEPT !.segment_id = i]]

\* the report over the returned segments:
\* MainDocumentType(main_type) if main_type != 'UNKNOWN' else None
ReportedMainType(segment) ==
    IF segment.main_type # "UNKNOWN" THEN segment.main_type ELSE None

\* needs_extraction = requires_extraction(..., sub_type)
needs_extraction(segment) ==
    requires_extraction(ReportedMainType(segment), segment.sub_type)

\* priority = get_subtype_priority(..., sub_type)
priority(segment) ==
    get_subtype_priority(ReportedMainType(segment), segment.sub_type)

(***************************************************************************)
(* config/document_types.py and the keyword lists of both classifiers      *)
(***************************************************************************)
DocumentType == [WORK_ORDER |-> "work_order", TURNOVER |-> "turnover",
                 UNKNOWN |-> "unknown"]

wo_keywords ==
    << "work order", "purchase order", "po#", "wo#", "order no",
       "invoice", "delivery address", "vendor", "supplier",
       "gstin", "gst", "items", "quantity", "rate", "amount",
       "completion certificate", "job order" >>

turnover_keywords ==
    << "turnover", "revenue", "profit and loss", "p&l", "income statement",
       "balance sheet", "financial statement", "shareholders",
       "revenue from operations", "total revenue", "total income",
       "expenses", "profit", "loss", "fiscal year", "fy" >>

(***************************************************************************)
(* Helpers shared by the two classify_segment bodies                       *)
(***************************************************************************)
\* sum over the valid pages of ('<hint>' in hints)
HintCount(segment_analyses, hint) ==
    Cardinality({k \in 1..Len(segment_analyses) :
                    hint \in segment_analyses[k].document_type_hints})

\* all snippets of the valid pages, in order
RECURSIVE AllSnippets(_, _)
AllSnippets(segment_analyses, k) ==
    IF k > Len(segment_analyses) THEN << >>
    ELSE segment_analyses[k].key_text_snippets \o AllSnippets(segment_analyses, k + 1)

LowerEach(snips) == [k \in 1..Len(snips) |-> Lower(snips[k])]

\* 'CERTIFICATE' in page_types
HasCertificate(segment_analyses) ==
    \E k \in 1..Len(segment_analyses) : segment_analyses[k].page_type = "CERTIFICATE"

\* 'financial' in text or 'balance' in text or 'profit and loss' in text
HasFinancialText(text) ==
    LET combined_text_lower == Lower(text)
    IN  \/ Contains(combined_text_lower, "financial")
        \/ Contains(combined_text_lower, "balance")
        \/ Contains(combined_text_lower, "profit and loss")

AnyTables(segment_analyses) ==
    \E k \in 1..Len(segment_analyses) : segment_analyses[k].has_tables

AnyForms(segment_analyses) ==
    \E k \in 1..Len(segment_analyses) : segment_analyses[k].has_forms

\* "if flag: score += points"
AddBonus(score, flag, points) == IF flag THEN FAdd(score, FInt(points)) ELSE score

\* a wrong total: the keyword factor is forgotten
WorkOrderTotalNoKeywords(hint_part, keyword_part, certificate, tables, forms) ==
    FMin(AddBonus(AddBonus(AddBonus(hint_part, certificate, 20), tables, 5), forms, 5),
         FInt(100))

\* a wrong total: the certificate bonus is forgotten
WorkOrderTotalNoCertificate(hint_part, keyword_part, certificate, tables, forms) ==
    FMin(AddBonus(AddBonus(FAdd(hint_part, keyword_part), tables, 5), forms, 5),
         FInt(100))

\* a wrong sum: forms count 10 for WORK_ORDER
WorkOrderSumFormsTen(hint_part, keyword_part, certificate, tables, forms) ==
    AddBonus(AddBonus(AddBonus(FAdd(hint_part, keyword_part), certificate, 20),
                      tables, 5),
             forms, 10)

\* wo_score after factors 1-4, before min(wo_score, 100): the additions in
\* the order of the code
WorkOrderSum(hint_part, keyword_part, certificate, tables, forms) ==
    AddBonus(AddBonus(AddBonus(FAdd(hint_part, keyword_part), certificate, 20),
                      tables, 5),
             forms, 5)

\* wo_score after factors 1-4 and min(wo_score, 100)
WorkOrderTotal(hint_part, keyword_part, certificate, tables, forms) ==
    FMin(WorkOrderSum(hint_part, keyword_part, certificate, tables, forms), FInt(100))

\* a wrong total: tables count twice for TURNOVER
TurnoverTotalTablesTwice(hint_part, keyword_part, financial, tables) ==
    FMin(AddBonus(AddBonus(FAdd(hint_part, keyword_part), financial, 20), tables, 10),
         FInt(100))

\* turnover_score after factors 1-4, before min(turnover_score, 100)
TurnoverSum(hint_part, keyword_part, financial, tables) ==
    AddBonus(AddBonus(FAdd(hint_part, keyword_part), financial, 20), tables, 5)

\* turnover_score after factors 1-4 and min(turnover_score, 100)
TurnoverTotal(hint_part, keyword_part, financial, tables) ==
    FMin(TurnoverSum(hint_part, keyword_part, financial, tables), FInt(100))

RECURSIVE JoinWith(_, _, _)
JoinWith(parts, sep, i) ==
    IF i > Len(parts) THEN ""
    ELSE IF i = Len(parts) THEN parts[i]
    ELSE parts[i] \o sep \o JoinWith(parts, sep, i + 1)

\* _build_reasoning of either classifier; fallback is its last-resort text
BuildReasoning(doc_type, hint_count, keyword_count, certificate, fallback) ==
    LET r1 == IF hint_count > 0
              THEN << "Found " \o doc_type \o " hints in " \o ToString(hint_count)
                      \o " page(s)" >>
              ELSE << >>
        r2 == IF keyword_count > 0
              THEN << ToString(keyword_count) \o " keyword matches" >>
              ELSE << >>
        r3 == IF certificate /\ doc_type = "WORK_ORDER"
              THEN << "Contains certificate page" >>
              ELSE << >>
        reasons == r1 \o r2 \o r3
    IN  JoinWith(IF reasons = << >> THEN << fallback >> ELSE reasons, "; ", 1)

\* a wrong tie-break: TURNOVER also wins when the hint counts are equal
DecideTurnoverOnTie(wo_score, turnover_score, wo_hints, turnover_hints, wo_reason, turnover_reason, wo_tie, turnover_tie) ==
    IF FLt(turnover_score, wo_score)
    THEN [document_type |-> DocumentType.WORK_ORDER,
          confidence |-> FDivInt(wo_score, 100), reasoning |-> wo_reason]
    ELSE IF FLt(wo_score, turnover_score)
    THEN [document_type |-> DocumentType.TURNOVER,
          confidence |-> FDivInt(turnover_score, 100),
          reasoning |-> turnover_reason]
    ELSE IF wo_hints > turnover_hints
    THEN [document_type |-> DocumentType.WORK_ORDER,
          confidence |-> FRatio(1, 2), reasoning |-> wo_tie]
    ELSE [document_type |-> DocumentType.TURNOVER,
          confidence |-> FRatio(1, 2), reasoning |-> turnover_tie]

\* the if / elif / else that picks the type, the confidence and the reasoning
Decide(wo_score, turnover_score, wo_hints, turnover_hints, wo_reason, turnover_reason, wo_tie, turnover_tie) ==
    IF FLt(turnover_score, wo_score)
    THEN [document_type |-> DocumentType.WORK_ORDER,
          confidence |-> FDivInt(wo_score, 100), reasoning |-> wo_reason]
    ELSE IF FLt(wo_score, turnover_score)
    THEN [document_type |-> DocumentType.TURNOVER,
          confidence |-> FDivInt(turnover_score, 100),
          reasoning |-> turnover_reason]
    ELSE IF wo_hints >= turnover_hints
    THEN [document_type |-> DocumentType.WORK_ORDER,
          confidence |-> FRatio(1, 2), reasoning |-> wo_tie]
    ELSE [document_type |-> DocumentType.TURNOVER,
          confidence |-> FRatio(1, 2), reasoning |-> turnover_tie]

\* the dict classify_segment returns (segment_id 0 = key absent); the
\* counts are kept beside it for the properties, they are not part of the dict
Classification(decision, segment_pages, wo_score, turnover_score, facts) ==
    [document_type |-> decision.document_type,
     confidence |-> decision.confidence,
     reasoning |-> decision.reasoning,
     segment_pages |-> segment_pages,
     scores |-> [work_order |-> FDivInt(wo_score, 100),
                 turnover |-> FDivInt(turnover_score, 100)],
     segment_id |-> 0,
     facts |-> facts]

NoFacts ==
    [valid |-> 0, wo_hints |-> 0, turnover_hints |-> 0, wo_matches |-> 0,
     turnover_matches |-> 0, certificate |-> FALSE, financial |-> FALSE,
     tables |-> FALSE, forms |-> FALSE, wo_keyword_part |-> FZero,
     turnover_keyword_part |-> FZero, wo_sum |-> FZero, turnover_sum |-> FZero,
     wo_total |-> FZero, turnover_total |-> FZero]

\* the local variables both classify_segment bodies compute from the valid
\* pages and the combined text
Facts(segment_analyses, combined_text) ==
    LET v == Len(segment_analyses)
        wo_hints == HintCount(segment_analyses, "WORK_ORDER")
        turnover_hints == HintCount(segment_analyses, "TURNOVER")
        wo_matches == CountMatches(wo_keywords, combined_text)
        turnover_matches == CountMatches(turnover_keywords, combined_text)
        total_keywords == IF wo_matches + turnover_matches > 1
                          THEN wo_matches + turnover_matches ELSE 1
        certificate == HasCertificate(segment_analyses)
        financial == HasFinancialText(combined_text)
        tables == AnyTables(segment_analyses)
        forms == AnyForms(segment_analyses)
        counts == [valid |-> v, wo_hints |-> wo_hints,
                   turnover_hints |-> turnover_hints, wo_matches |-> wo_matches,
                   turnover_matches |-> turnover_matches, total |-> total_keywords,
                   certificate |-> certificate, financial |-> financial,
                   tables |-> tables, forms |-> forms]
    IN  Once(counts, LAMBDA c :
        Once2(FMulInt(FRatio(c.wo_hints, c.valid), 40),
              FMulInt(FRatio(c.turnover_hints, c.valid), 40),
              LAMBDA wo_hint_part, turnover_hint_part :
        Once2(FMulInt(FRatio(c.wo_matches, c.total), 30),
              FMulInt(FRatio(c.turnover_matches, c.total), 30),
              LAMBDA wo_keyword_part, turnover_keyword_part :
            [valid |-> c.valid, wo_hints |-> c.wo_hints,
             turnover_hints |-> c.turnover_hints, wo_matches |-> c.wo_matches,
             turnover_matches |-> c.turnover_matches,
             certificate |-> c.certificate, financial |-> c.financial,
             tables |-> c.tables, forms |-> c.forms,
             wo_keyword_part |-> wo_keyword_part,
             turnover_keyword_part |-> turnover_keyword_part,
             wo_sum |-> WorkOrderSum(wo_hint_part, wo_keyword_part, c.certificate,
                                     c.tables, c.forms),
             turnover_sum |-> TurnoverSum(turnover_hint_part, turnover_keyword_part,
                                          c.financial, c.tables),
             wo_total |-> WorkOrderTotal(wo_hint_part, wo_keyword_part,
                                         c.certificate, c.tables, c.forms),
             turnover_total |-> TurnoverTotal(turnover_hint_part,
                                              turnover_keyword_part, c.financial,
                                              c.tables)])))

(***************************************************************************)
(* segmentation/classifier.py: DocumentClassifier                          *)
(***************************************************************************)
\* a wrong lookup: the success flag is not tested
RECURSIVE DocSegmentAnalysesAnyRecord(_, _, _)
DocSegmentAnalysesAnyRecord(segment_pages, page_analyses, j) ==
    IF j > Len(segment_pages) THEN << >>
    ELSE LET hits == {k \in 1..Len(page_analyses) :
                         page_analyses[k].page_number = segment_pages[j]}
             rest == DocSegmentAnalysesAnyRecord(segment_pages, page_analyses, j + 1)
         IN  IF hits = {} THEN rest
             ELSE << page_analyses[CHOOSE k \in hits : \A h \in hits : k <= h].data >>
                  \o rest

\* a wrong lookup: the page number inside the payload is accepted as well
RECURSIVE DocSegmentAnalysesEmbedded(_, _, _)
DocSegmentAnalysesEmbedded(segment_pages, page_analyses, j) ==
    IF j > Len(segment_pages) THEN << >>
    ELSE LET hits == {k \in 1..Len(page_analyses) :
                         /\ page_analyses[k].success
                         /\ \/ page_analyses[k].page_number = segment_pages[j]
                            \/ page_analyses[k].data.page_number = segment_pages[j]}
             rest == DocSegmentAnalysesEmbedded(segment_pages, page_analyses, j + 1)
         IN  IF hits = {} THEN rest
             ELSE << page_analyses[CHOOSE k \in hits : \A h \in hits : k <= h].data >>
                  \o rest

\* lines 63-68: the payloads of the pages that resolve, in page order
RECURSIVE DocSegmentAnalyses(_, _, _)
DocSegmentAnalyses(segment_pages, page_analyses, j) ==
    IF j > Len(segment_pages) THEN << >>
    ELSE LET hits == {k \in 1..Len(page_analyses) :
                         /\ page_analyses[k].success
                         /\ page_analyses[k].page_number = segment_pages[j]}
             rest == DocSegmentAnalyses(segment_pages, page_analyses, j + 1)
         IN  IF hits = {} THEN rest
             ELSE << page_analyses[CHOOSE k \in hits : \A h \in hits : k <= h].data >>
                  \o rest

DocNoValid(segment_pages) ==
    [document_type |-> DocumentType.UNKNOWN, confidence |-> FZero,
     reasoning |-> "No valid page analyses available",
     segment_pages |-> segment_pages,
     scores |-> [work_order |-> FZero, turnover |-> FZero],
     segment_id |-> 0, facts |-> NoFacts]

DocClassifySegment(segment_pages, page_analyses) ==
    LET segment_analyses == DocSegmentAnalyses(segment_pages, page_analyses, 1)
    IN  IF segment_analyses = << >> THEN DocNoValid(segment_pages)
        ELSE LET combined_text == Join(LowerEach(AllSnippets(segment_analyses, 1)))
             IN  Once(Facts(segment_analyses, combined_text), LAMBDA f :
                     Classification(
                         Decide(f.wo_total, f.turnover_total, f.wo_hints, f.turnover_hints,
                            BuildReasoning("WORK_ORDER", f.wo_hints, f.wo_matches,
                                f.certificate,
                                "Pattern match for WORK_ORDER document structure"),
                            BuildReasoning("TURNOVER", f.turnover_hints,
                                f.turnover_matches, f.certificate,
                                "Pattern match for TURNOVER document structure"),
                            "Tie - defaulting to Work Order based on hints",
                            "Tie - defaulting to Turnover based on hints"),
                         segment_pages, f.wo_total, f.turnover_total, f))

(***************************************************************************)
(* segmentation/classifier_fixed.py: FixedClassifier                       *)
(***************************************************************************)
Absent == [found |-> FALSE, data |-> EmptyData]
Found(data) == [found |-> TRUE, data |-> data]

\* a wrong lookup: the position is tried before the declared page_number
extract_page_data_by_position(page_analyses, page_num) ==
    LET s1 == {k \in 1..Len(page_analyses) :
                  /\ page_analyses[k].page_number = page_num
                  /\ page_analyses[k].success}
        idx == page_num - 1
    IN  IF 0 <= idx /\ idx < Len(page_analyses) /\ page_analyses[idx + 1].success
        THEN Found(page_analyses[idx + 1].data)
        ELSE IF s1 # {}
        THEN Found(page_analyses[CHOOSE k \in s1 : \A h \in s1 : k <= h].data)
        ELSE Absent

\* _extract_page_data; Absent is the None it returns
extract_page_data(page_analyses, page_num) ==
    LET s1 == {k \in 1..Len(page_analyses) :
                  /\ page_analyses[k].page_number = page_num
                  /\ page_analyses[k].success}
        idx == page_num - 1
        s3 == {k \in 1..Len(page_analyses) :
                  /\ page_analyses[k].success
                  /\ \/ page_analyses[k].data.page_number = page_num
                     \/ k - 1 = page_num - 1}
    IN  IF s1 # {}
        THEN Found(page_analyses[CHOOSE k \in s1 : \A h \in s1 : k <= h].data)
        ELSE IF 0 <= idx /\ idx < Len(page_analyses) /\ page_analyses[idx + 1].success
        THEN Found(page_analyses[idx + 1].data)
        ELSE IF s3 # {}
        THEN Found(page_analyses[CHOOSE k \in s3 : \A h \in s3 : k <= h].data)
        ELSE Absent

\* a wrong first pass: a page that does not resolve is kept as an empty payload
RECURSIVE FixedSegmentAnalysesAll(_, _, _)
FixedSegmentAnalysesAll(segment_pages, page_analyses, j) ==
    IF j > Len(segment_pages) THEN << >>
    ELSE << extract_page_data(page_analyses, segment_pages[j]).data >>
            \o FixedSegmentAnalysesAll(segment_pages, page_analyses, j + 1)

\* lines 95-99: a payload is kept when it is found and is not the empty dict
RECURSIVE FixedSegmentAnalyses(_, _, _)
FixedSegmentAnalyses(segment_pages, page_analyses, j) ==
    IF j > Len(segment_pages) THEN << >>
    ELSE LET page_data == extract_page_data(page_analyses, segment_pages[j])
             rest == FixedSegmentAnalyses(segment_pages, page_analyses, j + 1)
         IN  IF page_data.found /\ ~page_data.data.empty
             THEN << page_data.data >> \o rest
             ELSE rest

\* lines 107-112: the last resort reads the pages by position
RECURSIVE FixedLastResort(_, _, _)
FixedLastResort(segment_pages, page_analyses, j) ==
    IF j > Len(segment_pages) THEN << >>
    ELSE LET idx == segment_pages[j] - 1
             rest == FixedLastResort(segment_pages, page_analyses, j + 1)
         IN  IF 0 <= idx /\ idx < Len(page_analyses) /\ page_analyses[idx + 1].success
             THEN << page_analyses[idx + 1].data >> \o rest
             ELSE rest

FixedNoValid(segment_pages) ==
    [document_type |-> DocumentType.UNKNOWN, confidence |-> FZero,
     reasoning |-> "Could not extract page analyses (indexing issue)",
     segment_pages |-> segment_pages,
     scores |-> [work_order |-> FZero, turnover |-> FZero],
     segment_id |-> 0, facts |-> NoFacts]

FixedClassifySegment(segment_pages, page_analyses) ==
    LET first == FixedSegmentAnalyses(segment_pages, page_analyses, 1)
        segment_analyses ==
            IF first # << >> THEN first
            ELSE FixedLastResort(segment_pages, page_analyses, 1)
    IN  IF segment_analyses = << >> THEN FixedNoValid(segment_pages)
        ELSE LET combined_text == Lower(Join(AllSnippets(segment_analyses, 1)))
             IN  Once(Facts(segment_analyses, combined_text), LAMBDA f :
                     Classification(
                         Decide(f.wo_total, f.turnover_total, f.wo_hints, f.turnover_hints,
                            BuildReasoning("WORK_ORDER", f.wo_hints, f.wo_matches,
                                f.certificate, "Pattern match for WORK_ORDER"),
                            BuildReasoning("TURNOVER", f.turnover_hints,
                                f.turnover_matches, f.certificate,
                                "Pattern match for TURNOVER"),
                            "Tie - defaulting to Work Order",
                            "Tie - defaulting to Turnover"),
                         segment_pages, f.wo_total, f.turnover_total, f))

\* list(range(start, end + 1))
PageRange(start, end) == [k \in 1..(end - start + 1) |-> start + k - 1]

ClassifySegment(classifier, segment_pages, page_analyses) ==
    IF classifier = "doc"
    THEN DocClassifySegment(segment_pages, page_analyses)
    ELSE FixedClassifySegment(segment_pages, page_analyses)

\* a wrong classify_all_segments: a boundary without a valid page is dropped
classify_valid_segments(classifier, document_boundaries, page_analyses) ==
    LET all == [i \in 1..Len(document_boundaries) |->
                   [ClassifySegment(classifier,
                        PageRange(document_boundaries[i][1], document_boundaries[i][2]),
                        page_analyses) EXCEPT !.segment_id = i]]
    IN  SelectSeq(all, LAMBDA c : c.facts.valid >= 1)

\* classify_all_segments, the same in both classifiers
classify_all_segments(classifier, document_boundaries, page_analyses) ==
    [i \in 1..Len(document_boundaries) |->
        [ClassifySegment(classifier,
             PageRange(document_boundaries[i][1], document_boundaries[i][2]),
             page_analyses) EXCEPT !.segment_id = i]]

(***************************************************************************)
(* Inputs                                                                  *)
(***************************************************************************)
Payload(pn, page_type, hints, snippets, tables, forms, start) ==
    [EmptyData EXCEPT !.empty = FALSE, !.page_number = pn, !.page_type = page_type,
                      !.document_type_hints = hints, !.key_text_snippets = snippets,
                      !.has_tables = tables, !.has_forms = forms,
                      !.is_document_start = start]

NoResult == [classifier |-> "none", r |-> DocNoValid(<< >>)]

\* _extract_page_data has not been called
NoLookup == [page_num |-> 0, r |-> Absent]

\* classify_all_segments has not been called
NoResults == [classifier |-> "none", list |-> << >>]

\* no run of a pipeline has ended yet
NoPrevious ==
    [classified |-> FALSE, segmented |-> FALSE, boundaries |-> << >>,
     results |-> [doc |-> << >>, fixed |-> << >>], analyses |-> << >>,
     merged |-> << >>]

\* PageAnalyzer.analyze_all_pages has not been called
NoVision == [results |-> << >>, raised |-> None]

\* classify_ca_certificate_context has not been called
NoContext == [page_classifications |-> << >>, main_type |-> None]

NoCalls ==
    /\ lookup = NoLookup
    /\ results = NoResults
    /\ previous = NoPrevious
    /\ context = NoContext
    /\ vision = NoVision

Idle ==
    /\ NoCalls
    /\ boundaries = << >>
    /\ segments = << >>
    /\ merged = << >>
    /\ detected = NoSubtype
    /\ result = NoResult

(***************************************************************************)
(* SpecBoundary: boundary detection over records shaped as analyze_page    *)
(* returns them: a failed record carries page_number, a succeeded one      *)
(* carries it inside data.  A failed record may still hold a start hint.   *)
(***************************************************************************)
BoundaryKinds == {"failed", "failed_start", "ok", "ok_start"}

BoundaryPage(i, kind) ==
    CASE kind = "failed" -> FailedPage(i)
      [] kind = "failed_start" ->
           [FailedPage(i) EXCEPT !.data.empty = FALSE, !.data.is_document_start = TRUE]
      [] kind = "ok" ->
           OkPage(0, Payload(i, "DATA_PAGE", {}, << >>, FALSE, FALSE, FALSE))
      [] kind = "ok_start" ->
           OkPage(0, Payload(i, "DATA_PAGE", {}, << >>, FALSE, FALSE, TRUE))

InitBoundary ==
    /\ \E kinds \in SeqsUpTo(BoundaryKinds, MaxPages) :
          analyses = [i \in 1..Len(kinds) |-> BoundaryPage(i, kinds[i])]
    /\ pc = "analyzed"
    /\ Idle

DetectBoundaries ==
    /\ pc = "analyzed"
    /\ boundaries' = get_document_boundaries(analyses)
    /\ pc' = "bounded"
    /\ UNCHANGED calls
    /\ UNCHANGED <<analyses, segments, merged, detected, result>>

NextBoundary == DetectBoundaries

SpecBoundary == InitBoundary /\ [][NextBoundary]_vars

(***************************************************************************)
(* SpecDetect: the sub-type detector on one page                           *)
(***************************************************************************)
SnippetPool ==
    { "Revenue from operations", "Profit for the year", "Purchase Order No: 12345",
      "GSTIN", "hello",
      "ebitda", "udin", "assets", "basis for opinion", "form 16",
      "vendor", "work done", "penalty clause", "milestones", "work order" }

InitDetect ==
    /\ \E snippets \in SeqsUpTo(SnippetPool, MaxSnippets) :
          analyses = << OkPage(0, Payload(1, "DATA_PAGE", {}, snippets,
                                          FALSE, FALSE, FALSE)) >>
    /\ pc = "page"
    /\ Idle

DetectSubtype ==
    /\ pc = "page"
    /\ Len(analyses) = 1 /\ analyses[1].success
    /\ detected' = detect_subtype_from_keywords(analyses[1].data.key_text_snippets)
    /\ pc' = "detected"
    /\ UNCHANGED calls
    /\ UNCHANGED <<analyses, boundaries, segments, merged, result>>

EnhancePage ==
    /\ pc = "detected"
    /\ analyses' = << enhance_page_analysis_with_subtype(analyses[1]) >>
    /\ pc' = "annotated"
    /\ UNCHANGED calls
    /\ UNCHANGED <<boundaries, segments, merged, detected, result>>

NextDetect == DetectSubtype \/ EnhancePage

SpecDetect == InitDetect /\ [][NextDetect]_vars

(***************************************************************************)
(* SpecSegment: sub-type annotation of every page, then the segment        *)
(* builder, its merge pass and the ids get_detailed_segments adds          *)
(***************************************************************************)
SegSnippetPool ==
    { << >>,
      << "Revenue from operations", "Profit for the year" >>,
      << "Statement of Profit and Loss", "Total Revenue", "Net Profit", "Expenses" >>,
      << "Balance Sheet" >>,
      << "Purchase Order", "GSTIN" >>,
      << "Completion Certificate" >> }

SegPageKinds == {<<"failed", << >> >>} \cup {<<"ok", sn>> : sn \in SegSnippetPool}

SegPage(i, kind) ==
    IF kind[1] = "failed" THEN FailedPage(i)
    ELSE OkPage(0, Payload(i, "DATA_PAGE", {}, kind[2], FALSE, FALSE, FALSE))

InitSegment ==
    /\ \E kinds \in SeqsUpTo(SegPageKinds, MaxSegPages) :
          analyses = [i \in 1..Len(kinds) |-> SegPage(i, kinds[i])]
    /\ pc = "pages"
    /\ Idle

\* the caller's loop: enhance_page_analysis_with_subtype on every page
EnhanceAll ==
    /\ pc = "pages"
    /\ analyses' = [i \in 1..Len(analyses) |->
                        enhance_page_analysis_with_subtype(analyses[i])]
    /\ pc' = "enhanced"
    /\ UNCHANGED calls
    /\ UNCHANGED <<boundaries, segments, merged, detected, result>>

CreateSegments ==
    /\ pc = "enhanced"
    /\ segments' = create_homogeneous_segments(analyses)
    /\ pc' = "built"
    /\ UNCHANGED calls
    /\ UNCHANGED <<analyses, boundaries, merged, detected, result>>

MergeSegments ==
    /\ pc = "built"
    /\ LET out == merge_single_page_segments(segments, DefaultMinConfidence)
       IN  /\ merged' = out
           /\ segments' = InputAfterMerge(segments, out)
    /\ pc' = "merged"
    /\ UNCHANGED calls
    /\ UNCHANGED <<analyses, boundaries, detected, result>>

\* the tail of get_detailed_segments
NumberSegments ==
    /\ pc = "merged"
    /\ merged' = AddSegmentIds(merged)
    /\ segments' = InputAfterMerge(segments, AddSegmentIds(merged))
    /\ pc' = "numbered"
    /\ UNCHANGED calls
    /\ UNCHANGED <<analyses, boundaries, detected, result>>

NextSegment == EnhanceAll \/ CreateSegments \/ MergeSegments \/ NumberSegments

SpecSegment == InitSegment /\ [][NextSegment]_vars

(***************************************************************************)
(* SpecClassify: both classifiers on a page range of a document            *)
(***************************************************************************)
ClsHints == {{}, {"WORK_ORDER"}, {"TURNOVER"}}

ClsSnippets ==
    {<< >>, << "Purchase Order", "GSTIN" >>, << "Financial summary" >>,
     << "Revenue from operations" >>}

\* snippets that match 7 WORK_ORDER and 11 TURNOVER keywords
LedgerSnippets ==
    << "expenses", "fiscal year", "work order", "profit and loss", "turnover",
       "quantity", "financial statement", "revenue", "p&l", "job order",
       "shareholders", "amount", "profit", "completion certificate", "gstin",
       "revenue from operations" >>

\* snippets that match 11 WORK_ORDER and 7 TURNOVER keywords
OrderSnippets ==
    << "work order", "purchase order", "po#", "wo#", "order no", "invoice",
       "vendor", "supplier", "gstin", "items", "financial statement", "turnover",
       "revenue", "shareholders", "expenses", "fiscal year", "p&l" >>

\* snippets that match 5 WORK_ORDER and 13 TURNOVER keywords
AccountSnippets ==
    << "gstin", "invoice", "vendor", "items", "turnover", "revenue from operations",
       "profit and loss", "p&l", "balance sheet", "financial statement",
       "shareholders", "expenses", "fiscal year", "total income" >>

\* first pages of the longer documents: eighteen keyword matches on one page
LongPageKinds == {<<"ledger">>, <<"orders">>, <<"accounts">>}

\* their other pages: a WORK_ORDER hint only, or nothing
HintOnlyPageKinds == {<<"plain", {"WORK_ORDER"}, << >> >>, <<"plain", {}, << >> >>}

ClsPageKinds ==
    {<<"plain", h, sn>> : h \in ClsHints, sn \in ClsSnippets}
    \cup {<<"failed">>, <<"empty">>, <<"certificate">>, <<"forms">>, <<"mixed">>,
          <<"unnumbered">>}

ClsPage(i, kind) ==
    CASE kind[1] = "plain" ->
           OkPage(i, Payload(i, "DATA_PAGE", kind[2], kind[3], FALSE, FALSE, FALSE))
      [] kind[1] = "failed" -> FailedPage(i)
      [] kind[1] = "empty" -> OkPage(i, EmptyData)
      [] kind[1] = "certificate" ->
           OkPage(i, Payload(i, "CERTIFICATE", {}, << >>, FALSE, FALSE, FALSE))
      [] kind[1] = "forms" ->
           OkPage(i, Payload(i, "DATA_PAGE", {}, << >>, TRUE, TRUE, FALSE))
      [] kind[1] = "mixed" ->
           OkPage(i, Payload(i, "DATA_PAGE", {"WORK_ORDER", "TURNOVER"},
                             << "Invoice", "Turnover" >>, TRUE, FALSE, FALSE))
      [] kind[1] = "unnumbered" ->
           OkPage(0, Payload(i, "DATA_PAGE", {"WORK_ORDER"},
                             << "Purchase Order", "GSTIN" >>, FALSE, FALSE, FALSE))
      [] kind[1] = "ledger" ->
           OkPage(i, Payload(i, "DATA_PAGE", {"WORK_ORDER"}, LedgerSnippets,
                             FALSE, FALSE, FALSE))
      [] kind[1] = "orders" ->
           OkPage(i, Payload(i, "DATA_PAGE", {}, OrderSnippets, FALSE, FALSE, FALSE))
      [] kind[1] = "accounts" ->
           OkPage(i, Payload(i, "CERTIFICATE", {}, AccountSnippets,
                             FALSE, FALSE, FALSE))

\* documents of up to MaxClsPages pages of any kind, and documents one page
\* longer: a page of a long kind, then pages with at most a hint
InitClassify ==
    /\ \E kinds \in SeqsUpTo(ClsPageKinds, MaxClsPages)
                       \cup {<<first>> \o rest : first \in LongPageKinds,
                              rest \in [1..MaxClsPages -> HintOnlyPageKinds]} :
          /\ Len(kinds) >= 1
          /\ analyses = [i \in 1..Len(kinds) |-> ClsPage(i, kinds[i])]
    /\ pc = "records"
    /\ Idle

DocClassify ==
    /\ pc = "records"
    /\ \E start \in 1..Len(analyses) : \E end \in start..Len(analyses) :
          result' = [classifier |-> "doc",
                     r |-> DocClassifySegment(PageRange(start, end), analyses)]
    /\ pc' = "classified"
    /\ UNCHANGED calls
    /\ UNCHANGED <<analyses, boundaries, segments, merged, detected>>

FixedClassify ==
    /\ pc = "records"
    /\ \E start \in 1..Len(analyses) : \E end \in start..Len(analyses) :
          result' = [classifier |-> "fixed",
                     r |-> FixedClassifySegment(PageRange(start, end), analyses)]
    /\ pc' = "classified"
    /\ UNCHANGED calls
    /\ UNCHANGED <<analyses, boundaries, segments, merged, detected>>

NextClassify == DocClassify \/ FixedClassify

SpecClassify == InitClassify /\ [][NextClassify]_vars

(***************************************************************************)
(* SpecScore: both classifiers on documents whose pages carry every signal *)
(* of one type at once, or none: "empty" is a succeeded record with the    *)
(* payload {}, "empty_next" one that declares the number of the page after *)
(* it, "embedded_next" a record that declares its own number and holds the *)
(* number of the page after it inside its payload                          *)
(***************************************************************************)
ScorePageKinds ==
    {"failed", "bare", "tables", "keywords_both", "keywords_seven", "full_work_order",
     "full_turnover", "empty", "empty_next", "embedded_next"}

ScorePage(i, kind) ==
    CASE kind = "failed" -> FailedPage(i)
      [] kind = "bare" ->
           OkPage(i, Payload(i, "DATA_PAGE", {}, << >>, FALSE, FALSE, FALSE))
      [] kind = "tables" ->
           OkPage(i, Payload(i, "DATA_PAGE", {}, << >>, TRUE, FALSE, FALSE))
      [] kind = "keywords_both" ->
           OkPage(i, Payload(i, "DATA_PAGE", {}, << "Invoice", "Turnover", "Shareholders" >>,
                             FALSE, FALSE, FALSE))
      [] kind = "keywords_seven" ->
           OkPage(i, Payload(i, "DATA_PAGE", {},
                             << "Invoice", "Turnover", "Shareholders", "Expenses",
                                "Fiscal Year", "P&L", "Revenue" >>,
                             FALSE, FALSE, FALSE))
      [] kind = "empty" -> OkPage(i, EmptyData)
      [] kind = "empty_next" -> OkPage(i + 1, EmptyData)
      [] kind = "embedded_next" ->
           OkPage(i, Payload(i + 1, "DATA_PAGE", {"TURNOVER"}, << >>, FALSE, FALSE, FALSE))
      [] kind = "full_work_order" ->
           OkPage(i, Payload(i, "CERTIFICATE", {"WORK_ORDER"}, << "Purchase Order" >>,
                             TRUE, TRUE, FALSE))
      [] kind = "full_turnover" ->
           OkPage(i, Payload(i, "DATA_PAGE", {"TURNOVER"}, << "Balance Sheet" >>,
                             TRUE, FALSE, FALSE))

InitScore ==
    /\ \E kinds \in SeqsUpTo(ScorePageKinds, MaxClsPages) :
          /\ Len(kinds) >= 1
          /\ analyses = [i \in 1..Len(kinds) |-> ScorePage(i, kinds[i])]
    /\ pc = "records"
    /\ Idle

NextScore == DocClassify \/ FixedClassify

SpecScore == InitScore /\ [][NextScore]_vars

(***************************************************************************)
(* Spec: the four drivers side by side                                     *)
(***************************************************************************)
Init == InitBoundary \/ InitDetect \/ InitSegment \/ InitClassify

Next ==
    \/ DetectBoundaries
    \/ DetectSubtype
    \/ EnhancePage
    \/ EnhanceAll
    \/ CreateSegments
    \/ MergeSegments
    \/ NumberSegments
    \/ DocClassify
    \/ FixedClassify

Spec == Init /\ [][Next]_vars

(***************************************************************************)
(* SpecMerge: merge_single_page_segments on a segment list a caller hands  *)
(* it: consecutive ranges of one or two pages, neighbours of different     *)
(* type, confidences below and at the default threshold                    *)
(***************************************************************************)
SegTypePool ==
    { <<"TURNOVER", "P&L Statement">>, <<"TURNOVER", "Balance Sheet">>,
      <<"WORK_ORDER", "Purchase Order">> }

SegConfidencePool == {Rat(2, 5), Rat(3, 5)}

\* <<number of pages, <<main_type, sub_type>>, confidence>>
SegShapes == {1, 2} \X SegTypePool \X SegConfidencePool

RECURSIVE StartOf(_, _)
StartOf(shapes, i) ==
    IF i = 1 THEN 1 ELSE StartOf(shapes, i - 1) + shapes[i - 1][1]

GivenSegment(shapes, i) ==
    LET start == StartOf(shapes, i)
        end == start + shapes[i][1] - 1
    IN  [start_page |-> start, end_page |-> end, main_type |-> shapes[i][2][1],
         sub_type |-> shapes[i][2][2], pages |-> PageRange(start, end),
         confidence |-> shapes[i][3], segment_id |-> 0]

InitMerge ==
    /\ \E shapes \in SeqsUpTo(SegShapes, MaxSegments) :
          /\ \A i \in 1..(Len(shapes) - 1) : shapes[i][2] # shapes[i + 1][2]
          /\ segments = [i \in 1..Len(shapes) |-> GivenSegment(shapes, i)]
    /\ pc = "built"
    /\ NoCalls
    /\ analyses = << >>
    /\ boundaries = << >>
    /\ merged = << >>
    /\ detected = NoSubtype
    /\ result = NoResult

NextMerge == MergeSegments \/ NumberSegments

SpecMerge == InitMerge /\ [][NextMerge]_vars

(***************************************************************************)
(* SpecLookup: FixedClassifier._extract_page_data on records whose         *)
(* declared and embedded page numbers need not agree with their position.  *)
(* A payload names the position of its record in page_type, so that the    *)
(* record a payload came from can be told.                                 *)
(***************************************************************************)
\* 0 = the key page_number is absent
LookupNumbers == 0..(MaxLookupRecords + 1)

LookupKinds ==
    {<<"failed", n, 0>> : n \in LookupNumbers}
        \cup {<<"ok", n, e>> : n \in LookupNumbers, e \in LookupNumbers}

LookupRecord(i, kind) ==
    IF kind[1] = "failed" THEN FailedPage(kind[2])
    ELSE OkPage(kind[2],
                Payload(kind[3], "RECORD_" \o ToString(i), {}, << >>, FALSE, FALSE, FALSE))

InitLookup ==
    /\ \E kinds \in SeqsUpTo(LookupKinds, MaxLookupRecords) :
          analyses = [i \in 1..Len(kinds) |-> LookupRecord(i, kinds[i])]
    /\ pc = "records_to_search"
    /\ Idle

ExtractPageData ==
    /\ pc = "records_to_search"
    /\ \E page_num \in 1..(MaxLookupRecords + 1) :
          lookup' = [page_num |-> page_num,
                     r |-> extract_page_data(analyses, page_num)]
    /\ pc' = "searched"
    /\ UNCHANGED <<analyses, boundaries, segments, merged, detected, result, results,
                   previous, context, vision>>

NextLookup == ExtractPageData

SpecLookup == InitLookup /\ [][NextLookup]_vars

(***************************************************************************)
(* SpecPipeline: the two pipelines on records as analyze_page returns      *)
(* them (page_number inside data only) or as a caller numbers them, with   *)
(* optional fields missing: boundary detection, then classify_all_segments *)
(* of either classifier; sub-type annotation, then the segment builder     *)
(***************************************************************************)
PipelineKinds == {"failed", "empty", "bare", "po_start", "pl", "pl_start"}

PipelinePage(i, kind) ==
    CASE kind = "failed" -> FailedPage(i)
      [] kind = "empty" -> OkPage(0, EmptyData)
      [] kind = "bare" -> OkPage(0, Payload(i, None, {}, << >>, FALSE, FALSE, FALSE))
      [] kind = "po_start" ->
           OkPage(0, Payload(i, "DATA_PAGE", {"WORK_ORDER"},
                             << "Purchase Order", "GSTIN" >>, FALSE, FALSE, TRUE))
      [] kind = "pl" ->
           OkPage(i, Payload(i, "DATA_PAGE", {"TURNOVER"},
                             << "Revenue from operations" >>, TRUE, FALSE, FALSE))
      [] kind = "pl_start" ->
           OkPage(i, Payload(i, "DATA_PAGE", {"TURNOVER"},
                             << "Revenue from operations" >>, TRUE, FALSE, TRUE))

InitPipeline ==
    /\ \E kinds \in SeqsUpTo(PipelineKinds, MaxPages) :
          analyses = [i \in 1..Len(kinds) |-> PipelinePage(i, kinds[i])]
    /\ pc \in {"analyzed", "pages"}
    /\ Idle

ClassifyAll ==
    /\ pc = "bounded"
    /\ \E classifier \in {"doc", "fixed"} :
          results' = [classifier |-> classifier,
                      list |-> classify_all_segments(classifier, boundaries, analyses)]
    /\ pc' = "classified_all"
    /\ UNCHANGED <<analyses, boundaries, segments, merged, detected, result, lookup,
                   previous, context, vision>>

NextPipeline ==
    \/ DetectBoundaries
    \/ ClassifyAll
    \/ EnhanceAll
    \/ CreateSegments
    \/ MergeSegments
    \/ NumberSegments

SpecPipeline == InitPipeline /\ [][NextPipeline]_vars

(***************************************************************************)
(* SpecRerun: the pipelines are run again and again, in any order, on the  *)
(* record list the first run was given; the records are the same objects,  *)
(* so they hold what enhance_page_analysis_with_subtype wrote into them.   *)
(* previous keeps what the last run of each pipeline returned (per         *)
(* classifier for classify_all_segments)                                   *)
(***************************************************************************)
RunAgain ==
    /\ pc \in {"classified_all", "numbered"}
    /\ previous' =
          IF pc = "classified_all"
          THEN [previous EXCEPT !.classified = TRUE,
                                !.boundaries = boundaries,
                                !.results[results.classifier] = results.list]
          ELSE [previous EXCEPT !.segmented = TRUE,
                                !.analyses = analyses,
                                !.merged = merged]
    /\ pc' \in {"analyzed", "pages"}
    /\ boundaries' = << >>
    /\ segments' = << >>
    /\ merged' = << >>
    /\ results' = NoResults
    /\ UNCHANGED <<analyses, detected, result, lookup, context, vision>>

NextRerun == NextPipeline \/ RunAgain

SpecRerun == InitPipeline /\ [][NextRerun]_vars

(***************************************************************************)
(* SpecContext: classify_ca_certificate_context on the classifications of  *)
(* the neighbour pages; None is a page without the key main_type           *)
(***************************************************************************)
NeighbourTypes ==
    {MainDocumentType.TURNOVER, MainDocumentType.WORK_ORDER,
     MainDocumentType.UNKNOWN, None}

InitContext ==
    /\ \E types \in SeqsUpTo(NeighbourTypes, MaxNeighbours) :
          context = [page_classifications |->
                        [i \in 1..Len(types) |-> [main_type |-> types[i]]],
                     main_type |-> None]
    /\ pc = "neighbours"
    /\ analyses = << >>
    /\ boundaries = << >>
    /\ segments = << >>
    /\ merged = << >>
    /\ detected = NoSubtype
    /\ result = NoResult
    /\ lookup = NoLookup
    /\ results = NoResults
    /\ previous = NoPrevious
    /\ vision = NoVision

ClassifyContext ==
    /\ pc = "neighbours"
    /\ context' = [context EXCEPT !.main_type =
                      classify_ca_certificate_context(context.page_classifications)]
    /\ pc' = "context_classified"
    /\ UNCHANGED <<analyses, boundaries, segments, merged, detected, result, lookup,
                   results, previous, vision>>

NextContext == ClassifyContext

SpecContext == InitContext /\ [][NextContext]_vars

(***************************************************************************)
(* SpecVision: analyze_all_pages on the results of the vision model        *)
(***************************************************************************)
ResponsePool ==
    { PageDocument,
      JsonFence \o Text(" ") \o PageDocument \o Text(" ") \o Fence,
      Text("Result: {} end"),
      Fence \o Text(" {} ") \o Fence,
      Text("I cannot read this page"),
      JsonFence \o Text(" {oops ") \o Fence,
      Text("[]"),
      Text("} {"),
      JsonFence \o Text(" {}"),
      Text("{oops}") }

VlmResults ==
    {[success |-> FALSE, response |-> << >>]}
        \cup {[success |-> TRUE, response |-> r] : r \in ResponsePool}

InitVision ==
    /\ \E given \in SeqsUpTo(VlmResults, MaxImages) :
          vision = [results |-> given, raised |-> None]
    /\ pc = "images"
    /\ analyses = << >>
    /\ boundaries = << >>
    /\ segments = << >>
    /\ merged = << >>
    /\ detected = NoSubtype
    /\ result = NoResult
    /\ lookup = NoLookup
    /\ results = NoResults
    /\ previous = NoPrevious
    /\ context = NoContext

AnalyzeAllPages ==
    /\ pc = "images"
    /\ LET outcome == analyze_all_pages(vision.results)
       IN  /\ vision' = [vision EXCEPT !.raised = outcome.raised]
           /\ analyses' = outcome.analyses
    /\ pc' = "pages_analyzed"
    /\ UNCHANGED <<boundaries, segments, merged, detected, result, lookup, results,
                   previous, context>>

NextVision == AnalyzeAllPages

SpecVision == InitVision /\ [][NextVision]_vars

(***************************************************************************)
(* SpecPhase2: the driver of test_phase2a: analyze_all_pages, then         *)
(* get_document_boundaries and classify_all_segments on its records        *)
(***************************************************************************)
BoundariesOfAnalysis ==
    /\ pc = "pages_analyzed"
    /\ vision.raised = None
    /\ boundaries' = get_document_boundaries(analyses)
    /\ pc' = "bounded"
    /\ UNCHANGED <<analyses, segments, merged, detected, result, lookup, results,
                   previous, context, vision>>

NextPhase2 == AnalyzeAllPages \/ BoundariesOfAnalysis \/ ClassifyAll

SpecPhase2 == InitVision /\ [][NextPhase2]_vars

(***************************************************************************)
(* Properties                                                              *)
(***************************************************************************)
\* ranges (a sequence of <<start, end>>) cover 1..n in order, without gap or
\* overlap
Partition(ranges, n) ==
    /\ Len(ranges) >= 1
    /\ ranges[1][1] = 1
    /\ ranges[Len(ranges)][2] = n
    /\ \A k \in 1..Len(ranges) : ranges[k][1] <= ranges[k][2]
    /\ \A k \in 1..(Len(ranges) - 1) : ranges[k + 1][1] = ranges[k][2] + 1

SegmentRanges(segs) == [k \in 1..Len(segs) |-> <<segs[k].start_page, segs[k].end_page>>]

InUnit(c) == RLe(Zero, c) /\ RLe(c, One)

\* the same for a float of the classifiers
FInUnit(x) == FLe(FZero, x) /\ FLe(x, FInt(1))

\* C1: for N >= 1 page records, whatever mix of failed pages and start hints,
\* the boundaries get_document_boundaries returns are ordered, have
\* start <= end, begin at page 1, end at page N and follow one another
\* without gap or overlap.
C1_BoundariesPartition ==
    (pc = "bounded" /\ Len(analyses) >= 1) => Partition(boundaries, Len(analyses))

\* a document with a failed page, a failed page that holds a start hint and
\* at least two boundaries
C1_Witness ==
    /\ pc = "bounded"
    /\ Len(boundaries) >= 2
    /\ \E i \in 1..Len(analyses) : ~analyses[i].success /\ analyses[i].data.is_document_start
    /\ \E i \in 1..Len(analyses) : analyses[i].success /\ analyses[i].data.is_document_start

\* C2: for any N-page input, failed pages included, the segments of
\* create_homogeneous_segments, and the list merge_single_page_segments
\* returns, cover 1..N in order without gap or overlap.
C2_SegmentsPartition ==
    /\ (pc = "built" /\ Len(analyses) >= 1)
          => Partition(SegmentRanges(segments), Len(analyses))
    /\ (pc \in {"merged", "numbered"} /\ Len(analyses) >= 1)
          => Partition(SegmentRanges(merged), Len(analyses))

\* C3: every segment, before and after the merge pass, has
\* start_page <= end_page and pages = [start_page .. end_page].
C3_PagesAreTheRange ==
    LET Ok(seg) == /\ seg.start_page <= seg.end_page
                   /\ seg.pages = PageRange(seg.start_page, seg.end_page)
    IN  /\ pc = "built" => \A k \in 1..Len(segments) : Ok(segments[k])
        /\ pc \in {"merged", "numbered"} => \A k \in 1..Len(merged) : Ok(merged[k])

\* C4: every confidence the sub-type detector, the two classifiers and the
\* segment builder with its merge pass produce lies in [0, 1].
C4_ConfidenceBounded ==
    /\ pc = "detected" => InUnit(detected.confidence)
    /\ pc \in {"annotated", "enhanced"} =>
          \A i \in 1..Len(analyses) :
              analyses[i].success => InUnit(analyses[i].data.sub_type_confidence)
    /\ pc \in {"built", "merged", "numbered"} =>
          \A k \in 1..Len(segments) : InUnit(segments[k].confidence)
    /\ pc \in {"merged", "numbered"} =>
          \A k \in 1..Len(merged) : InUnit(merged[k].confidence)
    /\ pc = "classified" =>
          /\ FInUnit(result.r.confidence)
          /\ FInUnit(result.r.scores.work_order)
          /\ FInUnit(result.r.scores.turnover)

\* a page whose detected confidence was capped at 1.0 shares a segment with a
\* page of lower confidence, and the running average lies strictly between
C4_Witness ==
    /\ pc = "merged"
    /\ \E i \in 1..Len(analyses) :
          analyses[i].success /\ analyses[i].data.sub_type_confidence = One
    /\ \E k \in 1..Len(merged) :
          /\ Len(merged[k].pages) >= 2
          /\ RLt(Rat(3, 10), merged[k].confidence)
          /\ RLt(merged[k].confidence, One)

\* no page of the range resolves: the record at its position failed, and so
\* did every record that declares its number
AllPagesFailed(segment_pages) ==
    \A j \in 1..Len(segment_pages) :
        /\ segment_pages[j] \in 1..Len(analyses) => ~analyses[segment_pages[j]].success
        /\ \A k \in 1..Len(analyses) :
              analyses[k].page_number = segment_pages[j] => ~analyses[k].success

IsTieReasoning(reasoning) == Contains(reasoning, "Tie")

\* C5: when every page of a segment failed analysis, classify_segment (of
\* either classifier) returns UNKNOWN with confidence 0.0, both scores 0 and a
\* reasoning that mentions "no valid".
C5_NoValidPages ==
    (pc = "classified" /\ AllPagesFailed(result.r.segment_pages)) =>
        /\ result.r.document_type = DocumentType.UNKNOWN
        /\ result.r.confidence = FZero
        /\ result.r.scores.work_order = FZero
        /\ result.r.scores.turnover = FZero
        /\ Contains(Lower(result.r.reasoning), "no valid")

\* C6: when the two clamped totals are equal the type with the strictly
\* higher hint count is picked; with equal hint counts the result is
\* WORK_ORDER, the confidence is exactly 0.5 and the reasoning is a tie.
C6_TieBreak ==
    LET f == result.r.facts
    IN  (pc = "classified" /\ f.valid >= 1 /\ f.wo_total = f.turnover_total) =>
            /\ f.wo_hints > f.turnover_hints =>
                  result.r.document_type = DocumentType.WORK_ORDER
            /\ f.turnover_hints > f.wo_hints =>
                  result.r.document_type = DocumentType.TURNOVER
            /\ f.wo_hints = f.turnover_hints =>
                  /\ result.r.document_type = DocumentType.WORK_ORDER
                  /\ result.r.confidence = FRatio(1, 2)
                  /\ IsTieReasoning(result.r.reasoning)

\* equal positive totals of a two-page segment, more TURNOVER hints: TURNOVER
C6_Witness ==
    LET f == result.r.facts
    IN  /\ pc = "classified"
        /\ f.valid = 2
        /\ f.wo_total = f.turnover_total
        /\ FLt(FZero, f.wo_total)
        /\ f.turnover_hints > f.wo_hints
        /\ result.r.document_type = DocumentType.TURNOVER

EqualCounts(f) ==
    /\ f.valid >= 1
    /\ f.wo_hints = f.turnover_hints
    /\ f.wo_matches = f.turnover_matches

ExactTie(r) ==
    /\ r.document_type = DocumentType.WORK_ORDER
    /\ r.confidence = FRatio(1, 2)
    /\ IsTieReasoning(r.reasoning)

\* C7 as claimed: every segment with a valid page, equal hint counts and equal
\* keyword-match counts is classified WORK_ORDER with confidence 0.5 as a tie.
C7_EqualCountsTie ==
    (pc = "classified" /\ EqualCounts(result.r.facts)) => ExactTie(result.r)

\* C7 as amended: the same, for the segments in which no valid page reports
\* forms and the certificate-page bonus and the financial-text bonus apply
\* both or neither.
C7_EqualCountsAndBonusesTie ==
    LET f == result.r.facts
    IN  (/\ pc = "classified"
         /\ EqualCounts(f)
         /\ ~f.forms
         /\ f.certificate = f.financial) => ExactTie(result.r)

\* a certificate page and a page of financial text, no hint, no keyword: both
\* bonuses apply and the totals tie at 20
C7_Witness ==
    LET f == result.r.facts
    IN  /\ pc = "classified"
        /\ EqualCounts(f)
        /\ ~f.forms /\ f.certificate /\ f.financial
        /\ f.wo_total = FInt(20)
        /\ ExactTie(result.r)

\* C8: when every valid page hints WORK_ORDER, none hints TURNOVER and the
\* text matches a WORK_ORDER keyword and no TURNOVER keyword, the result is
\* WORK_ORDER with confidence >= 0.7.
C8_ClearWorkOrder ==
    LET f == result.r.facts
    IN  (/\ pc = "classified"
         /\ f.valid >= 1
         /\ f.wo_hints = f.valid
         /\ f.turnover_hints = 0
         /\ f.wo_matches >= 1
         /\ f.turnover_matches = 0) =>
            /\ result.r.document_type = DocumentType.WORK_ORDER
            /\ FLe(FRatio(7, 10), result.r.confidence)

\* two pages that hint WORK_ORDER and read "Purchase Order", "GSTIN"
C8_Witness ==
    LET f == result.r.facts
    IN  /\ pc = "classified"
        /\ Len(result.r.segment_pages) = MaxClsPages
        /\ f.valid = MaxClsPages
        /\ f.wo_hints = f.valid /\ f.turnover_hints = 0
        /\ f.wo_matches = 3 /\ f.turnover_matches = 0
        /\ \A i \in 1..Len(analyses) :
              analyses[i].data.key_text_snippets = << "Purchase Order", "GSTIN" >>
        /\ result.r.document_type = DocumentType.WORK_ORDER

\* the text the detector sees on the page
PageText == Lower(Join(analyses[1].data.key_text_snippets))

AllSubTypes == {ScoreOrder[i] : i \in 1..Len(ScoreOrder)}

\* keyword matches of every sub-type in the text
MatchCount(text) ==
    [st \in AllSubTypes |-> CountMatches(SUBTYPE_KEYWORDS(st), text)]

MaxMatchCount(counts) ==
    CHOOSE m \in {counts[st] : st \in AllSubTypes} :
        \A st \in AllSubTypes : counts[st] <= m

\* the sub-types that hold the maximum count, when a keyword matched
Tied(counts) ==
    LET m == MaxMatchCount(counts)
    IN  {st \in AllSubTypes : m > 0 /\ counts[st] = m}

FirstIn(order, set) ==
    order[CHOOSE i \in 1..Len(order) :
            /\ order[i] \in set
            /\ \A j \in 1..Len(order) : order[j] \in set => i <= j]

IsSubtype(main_type, sub_type, st) ==
    /\ main_type = SUBTYPE_TO_MAINTYPE(st)
    /\ sub_type = SubTypeValue(st)

\* C9 as claimed: among tied sub-types the one the keyword table
\* SUBTYPE_KEYWORDS declares first is selected.
C9_TieByKeywordTable ==
    pc = "detected" =>
        LET tied == Tied(MatchCount(PageText))
        IN  Cardinality(tied) >= 2 =>
                IsSubtype(detected.main_type, detected.sub_type,
                          FirstIn(KeywordTableOrder, tied))

\* C9 as amended: among tied sub-types the one declared first in the enums
\* is selected, TurnoverSubType before WorkOrderSubType; CA Certificate is
\* declared before Balance Sheet there.
C9_TieByEnumOrder ==
    pc = "detected" =>
        LET tied == Tied(MatchCount(PageText))
        IN  Cardinality(tied) >= 2 =>
                IsSubtype(detected.main_type, detected.sub_type,
                          FirstIn(ScoreOrder, tied))

\* Balance Sheet and CA Certificate tie and CA Certificate is selected
C9_Witness ==
    /\ pc = "detected"
    /\ Tied(MatchCount(PageText)) = {<<"T", "BALANCE_SHEET">>, <<"T", "CA_CERTIFICATE">>}
    /\ detected.main_type = "TURNOVER"
    /\ detected.sub_type = "CA Certificate"

\* confidence = max(min(m / (0.3 * k), 1.0), 0.3), stated by cases
ConfidenceIs(c, m, k) ==
    IF 10 * m >= 3 * k THEN c = One
    ELSE IF 100 * m <= 9 * k THEN c = Rat(3, 10)
    ELSE c.n * 3 * k = 10 * m * c.d

\* C10: detection followed by annotation yields (UNKNOWN, "Unknown", 0.0)
\* when no keyword matches, the empty snippet list included; otherwise a
\* max-count sub-type, the main type of its family and the confidence
\* max(min(m / (0.3 k), 1.0), 0.3), which is at least 0.3; "Revenue from
\* operations", "Profit for the year" gives TURNOVER / P&L Statement.
C10_DetectionResult ==
    pc = "annotated" =>
        LET d == analyses[1].data
            counts == MatchCount(PageText)
            m == MaxMatchCount(counts)
            tied == Tied(counts)
        IN  /\ IF m = 0
               THEN /\ d.main_type = "UNKNOWN"
                    /\ d.sub_type = "Unknown"
                    /\ d.sub_type_confidence = Zero
               ELSE /\ \E st \in tied :
                          /\ IsSubtype(d.main_type, d.sub_type, st)
                          /\ ConfidenceIs(d.sub_type_confidence, m,
                                          Len(SUBTYPE_KEYWORDS(st)))
                    /\ RLe(Rat(3, 10), d.sub_type_confidence)
            /\ d.key_text_snippets = << "Revenue from operations", "Profit for the year" >>
                  => /\ d.main_type = "TURNOVER"
                     /\ d.sub_type = "P&L Statement"

\* the page of the scenario: two of the twelve P&L keywords, confidence 5/9
C10_Witness ==
    /\ pc = "annotated"
    /\ analyses[1].data.key_text_snippets
          = << "Revenue from operations", "Profit for the year" >>
    /\ analyses[1].data.sub_type = "P&L Statement"
    /\ analyses[1].data.sub_type_confidence = Rat(5, 9)

\* the step that runs the merge pass on the list in segments
MergeStep == pc = "built" /\ pc' = "merged"

\* segment i is one page, below the default threshold, not the first, and
\* follows a segment of its main type
Absorbable(segs, i) ==
    /\ i > 1
    /\ segs[i].end_page = segs[i].start_page
    /\ RLt(segs[i].confidence, DefaultMinConfidence)
    /\ segs[i - 1].main_type = segs[i].main_type

\* the nearest segment at or before i that is not absorbable
GroupHead(segs, i) ==
    CHOOSE j \in 1..i :
        /\ ~Absorbable(segs, j)
        /\ \A m \in (j + 1)..i : Absorbable(segs, m)

\* the last segment of the run of absorbable segments that follows j
GroupLast(segs, j) ==
    CHOOSE l \in j..Len(segs) :
        /\ \A m \in (j + 1)..l : Absorbable(segs, m)
        /\ l < Len(segs) => ~Absorbable(segs, l + 1)

\* "<prev sub_type> + <merged sub_type>", one absorption after the other
RECURSIVE GroupLabel(_, _, _)
GroupLabel(segs, j, l) ==
    IF l = j THEN segs[j].sub_type
    ELSE Str(GroupLabel(segs, j, l - 1)) \o " + " \o Str(segs[l].sub_type)

RECURSIVE GroupPages(_, _, _)
GroupPages(segs, j, l) ==
    IF l = j THEN segs[j].pages ELSE GroupPages(segs, j, l - 1) \o segs[l].pages

\* C11: a one-page segment below the threshold that follows a segment of the
\* same main type is absorbed into it: the predecessor, still an entry of
\* its own that starts where it started, ends at the absorbed page (or at
\* the last page absorbed after it), holds the absorbed pages and is
\* labelled "<prev sub_type> + <merged sub_type>".
C11_AbsorbedIntoPredecessor ==
    [][MergeStep =>
        \A i \in 1..Len(segments) :
            Absorbable(segments, i) =>
                LET j == GroupHead(segments, i)
                    l == GroupLast(segments, j)
                IN  /\ j < i
                    /\ \E k \in 1..Len(merged') :
                          /\ merged'[k].start_page = segments[j].start_page
                          /\ merged'[k].end_page = segments[l].end_page
                          /\ merged'[k].pages = GroupPages(segments, j, l)
                          /\ merged'[k].sub_type = GroupLabel(segments, j, l)
                          /\ merged'[k].main_type = segments[i].main_type
                          /\ merged'[k].confidence = segments[j].confidence
                          /\ l = i =>
                                /\ merged'[k].end_page = segments[i].end_page
                                /\ merged'[k].sub_type =
                                      Str(GroupLabel(segments, j, i - 1)) \o " + "
                                          \o Str(segments[i].sub_type)
                    /\ \A k \in 1..Len(merged') :
                          merged'[k].start_page # segments[i].start_page]_vars

\* a Balance Sheet page of confidence 0.4 was absorbed into the P&L segment
\* before it
C11_Witness ==
    /\ pc = "merged"
    /\ \E i \in 2..Len(segments) :
          /\ segments[i].confidence = Rat(2, 5)
          /\ segments[i].sub_type = "Balance Sheet"
          /\ \E k \in 1..Len(merged) :
                /\ merged[k].start_page < segments[i].start_page
                /\ merged[k].end_page = segments[i].end_page
                /\ merged[k].sub_type = "P&L Statement + Balance Sheet"

\* the entry of the output list that holds the last page of segment i
EntryOf(out, segs, i) ==
    CHOOSE k \in 1..Len(out) :
        \E n \in 1..Len(out[k].pages) : out[k].pages[n] = segs[i].end_page

\* C12: a segment is absorbed if and only if it is one page, strictly below
\* the threshold, not the first, and the preceding entry of the output list
\* has its main type; every other segment is an entry of its own; a segment
\* is merged backward only and its pages end up in exactly one entry.
C12_AbsorbedIff ==
    [][MergeStep =>
        LET segs == segments
            out == merged'
            Kept(i) == \E k \in 1..Len(out) : out[k].start_page = segs[i].start_page
        IN  /\ \A i \in 1..Len(segs) :
                  ~Kept(i) <=>
                      /\ segs[i].end_page - segs[i].start_page = 0
                      /\ RLt(segs[i].confidence, DefaultMinConfidence)
                      /\ i > 1
                      /\ out[EntryOf(out, segs, i - 1)].main_type = segs[i].main_type
            /\ Len(out) = Cardinality({i \in 1..Len(segs) : Kept(i)})
            /\ \A k \in 1..(Len(out) - 1) : out[k].end_page < out[k + 1].start_page
            /\ \A i \in 1..Len(segs) :
                  /\ \E k \in 1..Len(out) :
                        /\ out[k].start_page <= segs[i].start_page
                        /\ segs[i].end_page <= out[k].end_page
                  /\ Cardinality({k \in 1..Len(out) :
                        \E n \in 1..Len(out[k].pages) :
                            out[k].pages[n] = segs[i].end_page}) = 1]_vars

\* three segments of one main type: the second, one page at exactly the
\* threshold, is kept; the third, one page below it, is absorbed by the second
C12_Witness ==
    /\ pc = "merged"
    /\ Len(segments) = 3
    /\ Len(merged) = 2
    /\ Len(merged[2].pages) = 2
    /\ segments[2].confidence = DefaultMinConfidence
    /\ segments[2].main_type = segments[1].main_type
    /\ merged[2].start_page = segments[2].start_page
    /\ merged[2].end_page = segments[3].end_page

\* C13: the page lookup resolves p by precedence: the first succeeded record
\* that declares page_number = p; else the record at position p if it
\* succeeded; else a succeeded record whose payload holds page number p; else
\* it returns absent.  It returns in every case.
C13_LookupPrecedence ==
    pc = "searched" =>
        LET p == lookup.page_num
            declared == {k \in 1..Len(analyses) :
                            analyses[k].success /\ analyses[k].page_number = p}
            embedded == {k \in 1..Len(analyses) :
                            analyses[k].success /\ analyses[k].data.page_number = p}
        IN  IF declared # {}
            THEN lookup.r = Found(analyses[CHOOSE k \in declared :
                                              \A h \in declared : k <= h].data)
            ELSE IF p \in 1..Len(analyses) /\ analyses[p].success
            THEN lookup.r = Found(analyses[p].data)
            ELSE IF embedded # {}
            THEN \E k \in embedded : lookup.r = Found(analyses[k].data)
            ELSE lookup.r = Absent

\* out-of-order records: the second record declares page 1 and is returned
\* for p = 1, although the first record succeeded as well
C13_Witness ==
    /\ pc = "searched"
    /\ lookup.page_num = 1
    /\ Len(analyses) = 2
    /\ analyses[1].success /\ analyses[1].page_number = 2
    /\ analyses[2].success /\ analyses[2].page_number = 1
    /\ lookup.r = Found(analyses[2].data)

\* the pages of a segment whose record succeeded
SucceededPages(segment_pages) ==
    SelectSeq(segment_pages,
              LAMBDA p : p \in 1..Len(analyses) /\ analyses[p].success)

\* the classifier of the current result, run on another page list
ClassifyAgain(segment_pages) ==
    IF result.classifier = "doc"
    THEN DocClassifySegment(segment_pages, analyses)
    ELSE FixedClassifySegment(segment_pages, analyses)

Outcome(r) == <<r.document_type, r.confidence, r.scores>>

\* C14: failed pages count in no numerator and no denominator: a segment
\* with at least one succeeded page gets the document type, confidence and
\* scores it gets without its failed pages, and the pages counted are at most
\* the succeeded ones.
C14_FailedPagesIgnored ==
    pc = "classified" =>
        LET succeeded == SucceededPages(result.r.segment_pages)
        IN  succeeded # << >> =>
                /\ succeeded # result.r.segment_pages =>
                       Outcome(result.r) = Outcome(ClassifyAgain(succeeded))
                /\ result.r.facts.valid <= Len(succeeded)
                /\ result.r.facts.wo_hints <= result.r.facts.valid
                /\ result.r.facts.turnover_hints <= result.r.facts.valid

\* a page that hints WORK_ORDER and reads "Purchase Order", "GSTIN" beside a
\* failed page: confidence 0.7, as for the page alone
C14_Witness ==
    /\ pc = "classified"
    /\ Len(result.r.segment_pages) = 2
    /\ \E i \in 1..2 : ~analyses[result.r.segment_pages[i]].success
    /\ result.r.facts.valid = 1
    /\ result.r.document_type = DocumentType.WORK_ORDER
    /\ result.r.confidence = FRatio(7, 10)

IsText(x) == x # None /\ x # ""

\* a classification result with every key of the dict, of the right kind
WellFormedResult(c, i, boundary) ==
    /\ c.document_type \in {DocumentType.WORK_ORDER, DocumentType.TURNOVER,
                            DocumentType.UNKNOWN}
    /\ FInUnit(c.confidence)
    /\ IsText(c.reasoning)
    /\ FInUnit(c.scores.work_order) /\ FInUnit(c.scores.turnover)
    /\ c.segment_id = i
    /\ c.segment_pages = PageRange(boundary[1], boundary[2])

WellFormedSegment(seg, k) ==
    /\ seg.segment_id = k
    /\ 1 <= seg.start_page /\ seg.start_page <= seg.end_page
    /\ seg.end_page <= Len(analyses)
    /\ Len(seg.pages) >= 1
    /\ seg.pages[1] = seg.start_page /\ seg.pages[Len(seg.pages)] = seg.end_page
    /\ seg.main_type \in {MainDocumentType.TURNOVER, MainDocumentType.WORK_ORDER,
                          MainDocumentType.UNKNOWN}
    /\ IsText(seg.sub_type)
    /\ InUnit(seg.confidence)

\* C15: on any record sequence, the empty one, all failed pages and payloads
\* without optional fields included, boundary detection followed by
\* classify_all_segments gives one well-formed result per boundary, numbered
\* in order, and annotation followed by the segment builder and its merge
\* pass gives well-formed segments.
C15_NothingFatal ==
    /\ pc = "classified_all" =>
          /\ Len(results.list) = Len(boundaries)
          /\ \A i \in 1..Len(results.list) :
                WellFormedResult(results.list[i], i, boundaries[i])
    /\ pc = "numbered" =>
          \A k \in 1..Len(merged) : WellFormedSegment(merged[k], k)

\* a document of a failed page and an empty payload: one boundary, one result
\* and that result has confidence 0.0
C15_Witness ==
    /\ pc = "classified_all"
    /\ Len(analyses) = 2
    /\ ~analyses[1].success
    /\ analyses[2].success /\ analyses[2].data.empty
    /\ Len(results.list) = 1
    /\ results.list[1].confidence = FZero
    /\ results.list[1].document_type = DocumentType.UNKNOWN

\* the classifier of the current results has classified this record list in
\* an earlier run
ClassifiedBefore ==
    /\ previous.classified
    /\ results.classifier \in {"doc", "fixed"}
    /\ previous.results[results.classifier] # << >>

\* C16: a later run on the record sequence of an earlier one gives the same
\* boundaries, the same classifications (by the same classifier), the same
\* sub-type annotations and the same segments, whatever ran in between.
C16_SecondRunIdentical ==
    /\ (previous.classified /\ pc = "bounded") => boundaries = previous.boundaries
    /\ (ClassifiedBefore /\ pc = "classified_all")
          => results.list = previous.results[results.classifier]
    /\ (previous.segmented /\ pc = "enhanced") => analyses = previous.analyses
    /\ (previous.segmented /\ pc = "numbered") => merged = previous.merged

\* C17: every segment get_detailed_segments returns with its default
\* arguments holds one sub-type: each of its pages carries the
\* (main_type, sub_type) pair the segment is labelled with.
C17_OneSubTypePerSegment ==
    pc = "numbered" =>
        \A k \in 1..Len(merged) :
            \A n \in 1..Len(merged[k].pages) :
                LET data == analyses[merged[k].pages[n]].data
                IN  /\ data.main_type = merged[k].main_type
                    /\ data.sub_type = merged[k].sub_type

\* neighbour pages that carry the main type t
Carrying(t) ==
    {i \in 1..Len(context.page_classifications) :
        context.page_classifications[i].main_type = t}

\* C18: classify_ca_certificate_context returns the main type more neighbour
\* pages carry, TURNOVER and WORK_ORDER pages only being counted; on an exact
\* tie, an empty list and a list of UNKNOWN pages included, it returns
\* TURNOVER; it never returns UNKNOWN.
C18_ContextMajority ==
    pc = "context_classified" =>
        LET t == Cardinality(Carrying("TURNOVER"))
            w == Cardinality(Carrying("WORK_ORDER"))
        IN  /\ t > w => context.main_type = "TURNOVER"
            /\ w > t => context.main_type = "WORK_ORDER"
            /\ t = w => context.main_type = "TURNOVER"
            /\ context.main_type # "UNKNOWN"

\* two UNKNOWN pages, one TURNOVER and one WORK_ORDER page: a tie, TURNOVER
C18_Witness ==
    /\ pc = "context_classified"
    /\ Cardinality(Carrying("UNKNOWN")) = 2
    /\ Cardinality(Carrying("TURNOVER")) = 1
    /\ Cardinality(Carrying("WORK_ORDER")) = 1
    /\ context.main_type = "TURNOVER"

\* the response of page i cannot be parsed
Unparseable(i) ==
    /\ vision.results[i].success
    /\ extract_json_from_response(vision.results[i].response).raised # None

\* C19: every failure to parse the response of a page becomes a page record
\* with success = false that carries the page number; no parse failure leaves
\* analyze_page or analyze_all_pages as an exception, and the other pages
\* are still analysed.
C19_ParseFailureIsFailedRecord ==
    pc = "pages_analyzed" =>
        /\ vision.raised \notin {"JSONDecodeError", "ValueError"}
        /\ vision.raised = None =>
              /\ Len(analyses) = Len(vision.results)
              /\ \A i \in 1..Len(analyses) :
                    Unparseable(i) =>
                        ~analyses[i].success /\ analyses[i].page_number = i

\* start pages of the boundaries returned
StartPages == {boundaries[k][1] : k \in 1..Len(boundaries)}

\* record i succeeded and its payload declares a document start
DeclaresStart(i) == analyses[i].success /\ analyses[i].data.is_document_start

\* the claim as stated, for a list of any length: the start pages are exactly
\* page 1 and the pages after it that declare a start
C20_StartPagesAnyLength ==
    pc = "bounded" =>
        StartPages = {1} \cup {i \in 2..Len(analyses) : DeclaresStart(i)}

\* C20: for N >= 1 page records the start pages of the boundaries returned by
\* get_document_boundaries are exactly page 1 and the pages i > 1 whose record
\* succeeded and declares a document start, one boundary each: a failed page
\* opens none, a start flag on page 1 has no effect, N pages that all declare
\* a start give N singleton boundaries and no start flag gives (1, N) alone;
\* for an empty list no boundary is returned.
C20_StartPages ==
    pc = "bounded" =>
        LET N == Len(analyses)
        IN  IF N = 0 THEN boundaries = << >>
            ELSE /\ StartPages = {1} \cup {i \in 2..N : DeclaresStart(i)}
                 /\ Len(boundaries) = Cardinality(StartPages)
                 /\ (\A i \in 1..N : DeclaresStart(i))
                       => boundaries = [i \in 1..N |-> <<i, i>>]
                 /\ (\A i \in 1..N : ~DeclaresStart(i))
                       => boundaries = << <<1, N>> >>

\* page 1 declares a start, page 2 failed with a start hint, page 3 declares
\* a start: the boundaries are (1, 2) and (3, 3)
C20_Witness ==
    /\ pc = "bounded"
    /\ Len(analyses) = 3
    /\ DeclaresStart(1)
    /\ ~analyses[2].success /\ analyses[2].data.is_document_start
    /\ DeclaresStart(3)
    /\ boundaries = << <<1, 2>>, <<3, 3>> >>

\* 1 when the flag holds, else 0
Ind(flag) == IF flag THEN 1 ELSE 0

\* max(kW + kT, 1)
MatchTotal(f) == IF f.wo_matches + f.turnover_matches > 1
                 THEN f.wo_matches + f.turnover_matches ELSE 1

\* the stated totals as fractions over v * max(kW + kT, 1), clamped at 100
StatedWorkOrder(f) ==
    LET t == MatchTotal(f)
        sum == 40 * f.wo_hints * t + 30 * f.wo_matches * f.valid
               + (20 * Ind(f.certificate) + 5 * Ind(f.tables) + 5 * Ind(f.forms))
                 * f.valid * t
    IN  IF sum > 100 * f.valid * t THEN 100 * f.valid * t ELSE sum

StatedTurnover(f) ==
    LET t == MatchTotal(f)
        sum == 40 * f.turnover_hints * t + 30 * f.turnover_matches * f.valid
               + (20 * Ind(f.financial) + 5 * Ind(f.tables)) * f.valid * t
    IN  IF sum > 100 * f.valid * t THEN 100 * f.valid * t ELSE sum

BigLe(X, Y) == ~BigLess(Y, X)

\* the float x is num / den up to the rounding of a few operations:
\* |x - num / den| <= 2^-40, for 0 <= num < 2^30 and 0 < den < 2^15
FNear(x, num, den) ==
    Once(x, LAMBDA a :
        Once(IF a.e < -40 THEN -a.e ELSE 40, LAMBDA k :
            Once2(BigShl(BigMulSmall(a.m, den), k + a.e), BigShl(BigOf(num), k),
                  LAMBDA scaled, stated :
                      Once(BigShl(BigOf(den), k - 40), LAMBDA slack :
                          /\ BigLe(scaled, BigAdd(stated, slack))
                          /\ BigLe(stated, BigAdd(scaled, slack))))))

\* C21: for a segment with v >= 1 valid pages the totals are
\* WORK_ORDER = 40*hW/v + 30*kW/max(kW+kT,1) + 20*[certificate page]
\* + 5*[tables] + 5*[forms] and TURNOVER = 40*hT/v + 30*kT/max(kW+kT,1)
\* + 20*[financial text] + 5*[tables], each at most 100; when they differ the
\* higher one wins and the confidence is the winning total / 100.  The
\* totals are floats: each is the stated value up to rounding, stated totals
\* that differ are ordered as the floats are, and the comparison and the
\* division by 100 are those of the floats.
C21_TotalsAndWinner ==
    LET f == result.r.facts
        den == f.valid * MatchTotal(f)
        wo == StatedWorkOrder(f)
        to == StatedTurnover(f)
    IN  (pc = "classified" /\ f.valid >= 1) =>
            /\ FNear(f.wo_total, wo, den)
            /\ FNear(f.turnover_total, to, den)
            /\ wo > to => FLt(f.turnover_total, f.wo_total)
            /\ to > wo => FLt(f.wo_total, f.turnover_total)
            /\ FLt(f.turnover_total, f.wo_total) =>
                  /\ result.r.document_type = DocumentType.WORK_ORDER
                  /\ result.r.confidence = FDivInt(f.wo_total, 100)
                  /\ FNear(result.r.confidence, wo, 100 * den)
            /\ FLt(f.wo_total, f.turnover_total) =>
                  /\ result.r.document_type = DocumentType.TURNOVER
                  /\ result.r.confidence = FDivInt(f.turnover_total, 100)
                  /\ FNear(result.r.confidence, to, 100 * den)

\* three valid pages, two of them hinting WORK_ORDER, 7 WORK_ORDER and 11
\* TURNOVER keywords and financial text: the stated totals are both 115 / 3,
\* the floats are (2/3)*40 + (7/18)*30 = 38.33333333333333 and
\* (11/18)*30 + 20 = 38.333333333333336, so TURNOVER wins by the last bit
C21_Witness ==
    LET f == result.r.facts
    IN  /\ pc = "classified"
        /\ f.valid = 3
        /\ f.wo_hints = 2 /\ f.turnover_hints = 0
        /\ f.wo_matches = 7 /\ f.turnover_matches = 11
        /\ f.financial /\ ~f.tables /\ ~f.forms /\ ~f.certificate
        /\ StatedWorkOrder(f) = StatedTurnover(f)
        /\ FLt(f.wo_total, f.turnover_total)
        /\ result.r.document_type = DocumentType.TURNOVER
        /\ result.r.confidence = FDivInt(f.turnover_total, 100)
        /\ result.r.reasoning = "11 keyword matches"

\* C22: the scores map holds each type's clamped total on the 0..100 scale,
\* so that on a strict win the confidence is the winner's scores entry
\* divided by 100.
C22_ScoresOnHundredScale ==
    LET f == result.r.facts
        r == result.r
    IN  (pc = "classified" /\ f.valid >= 1) =>
            /\ r.scores.work_order = f.wo_total
            /\ r.scores.turnover = f.turnover_total
            /\ FLt(f.turnover_total, f.wo_total) =>
                  r.confidence = FDivInt(r.scores.work_order, 100)
            /\ FLt(f.wo_total, f.turnover_total) =>
                  r.confidence = FDivInt(r.scores.turnover, 100)


\* sub_type_confidence of page p after annotation
PageConfidence(p) == analyses[p].data.sub_type_confidence

\* weight of the j-th of k member pages: 1/2^(k-1) for the first, 1/2 for the
\* last, halving backwards in between
PageWeight(j, k) == IF j = 1 THEN Rat(1, Pow2(k - 1)) ELSE Rat(1, Pow2(k - j + 1))

RECURSIVE WeightedFrom(_, _)
WeightedFrom(pages, j) ==
    IF j > Len(pages) THEN Zero
    ELSE RAdd(RMul(PageConfidence(pages[j]), PageWeight(j, Len(pages))),
              WeightedFrom(pages, j + 1))

RECURSIVE SumFrom(_, _)
SumFrom(pages, j) ==
    IF j > Len(pages) THEN Zero
    ELSE RAdd(PageConfidence(pages[j]), SumFrom(pages, j + 1))

\* arithmetic mean of the confidences of the member pages
MeanConfidence(pages) == RMul(SumFrom(pages, 1), Rat(1, Len(pages)))

PairOfPage(p) == <<analyses[p].data.main_type, analyses[p].data.sub_type>>

PairOfSegment(seg) == <<seg.main_type, seg.sub_type>>

\* C23: in create_homogeneous_segments a page with the pair of the open
\* segment extends it and makes its confidence (old + page) / 2, a page with
\* another pair closes it unchanged and opens a new one with the page's
\* confidence; so a k-page segment weights its last page by 1/2 and its first
\* by 1/2^(k-1), and every member page has the pair of the segment while the
\* next segment starts with another pair.
C23_RunningHalfAverage ==
    pc = "built" =>
        \A s \in 1..Len(segments) :
            LET seg == segments[s]
            IN  /\ seg.confidence = WeightedFrom(seg.pages, 1)
                /\ \A j \in 1..Len(seg.pages) : PairOfPage(seg.pages[j]) = PairOfSegment(seg)
                /\ s < Len(segments) =>
                      PairOfSegment(segments[s + 1]) # PairOfSegment(seg)
                /\ Len(seg.pages) = 1 => seg.confidence = PageConfidence(seg.pages[1])

\* a three-page segment whose first page is less confident than the other
\* two: first/4 + second/4 + third/2, which is more than the mean and differs
\* from what the reverse order gives (first/2 + second/4 + third/4)
C23_Witness ==
    /\ pc = "built"
    /\ Len(segments) = 1
    /\ Len(segments[1].pages) = 3
    /\ LET c1 == PageConfidence(1)
           c2 == PageConfidence(2)
           c3 == PageConfidence(3)
       IN  /\ RLt(c1, c2) /\ c2 = c3
           /\ segments[1].confidence =
                 RAdd(RMul(RAdd(c1, c2), Rat(1, 4)), RMul(c3, Rat(1, 2)))
           /\ RLt(MeanConfidence(segments[1].pages), segments[1].confidence)
           /\ segments[1].confidence #
                 RAdd(RMul(c1, Rat(1, 2)), RMul(RAdd(c2, c3), Rat(1, 4)))

\* the sum of the two keyword contributions, as the floats add
KeywordPartsSum(f) == FAdd(f.wo_keyword_part, f.turnover_keyword_part)

\* the sums stay under their caps, so min(score, 100) changes neither and
\* TURNOVER is reported with a confidence of at most 0.95
ClampIdle ==
    LET f == result.r.facts
    IN  /\ FLe(f.wo_sum, FInt(100))
        /\ FLe(f.turnover_sum, FInt(95))
        /\ f.wo_total = f.wo_sum
        /\ f.turnover_total = f.turnover_sum
        /\ result.r.document_type = DocumentType.TURNOVER =>
              FLe(result.r.confidence, FRatio(95, 100))

\* C24 as claimed: before the clamp the WORK_ORDER total is at most 100 and
\* the TURNOVER total at most 95, and the two keyword contributions add up to
\* exactly 30 when a keyword matched and to 0 otherwise; so the clamp changes
\* no score and TURNOVER is never reported with a confidence above 0.95.
C24_KeywordPartsExactlyThirty ==
    LET f == result.r.facts
    IN  (pc = "classified" /\ f.valid >= 1) =>
            /\ ClampIdle
            /\ KeywordPartsSum(f) =
                  (IF f.wo_matches + f.turnover_matches > 0 THEN FInt(30) ELSE FZero)

\* C24 as amended: the same, with the keyword contributions adding up to 30
\* up to the rounding of the floats (to exactly 30 when only one type
\* matched), and to exactly 0 when no keyword matched.
C24_ClampNeverActs ==
    LET f == result.r.facts
    IN  (pc = "classified" /\ f.valid >= 1) =>
            /\ ClampIdle
            /\ f.wo_matches + f.turnover_matches = 0 => KeywordPartsSum(f) = FZero
            /\ f.wo_matches + f.turnover_matches > 0 =>
                  FNear(KeywordPartsSum(f), 30, 1)
            /\ (f.wo_matches = 0) # (f.turnover_matches = 0) =>
                  KeywordPartsSum(f) = FInt(30)

\* every signal of TURNOVER at once: 40 + 30 + 20 + 5, reported at 0.95
C24_Witness ==
    LET f == result.r.facts
    IN  /\ pc = "classified"
        /\ f.valid = 2
        /\ f.turnover_hints = 2 /\ f.turnover_matches >= 1 /\ f.wo_matches = 0
        /\ f.financial /\ f.tables
        /\ f.turnover_sum = FInt(95)
        /\ KeywordPartsSum(f) = FInt(30)
        /\ result.r.document_type = DocumentType.TURNOVER
        /\ result.r.confidence = FRatio(95, 100)

\* page p resolves to a payload in the classifier that produced the result
Resolves(p) ==
    IF result.classifier = "doc"
    THEN \E k \in 1..Len(analyses) : analyses[k].success /\ analyses[k].page_number = p
    ELSE extract_page_data(analyses, p).found

\* C25: when at least one page of the segment resolves to a payload,
\* classify_segment returns WORK_ORDER or TURNOVER, never UNKNOWN; on a tie of
\* the totals the confidence is 0.5, and with both totals 0 the result is
\* WORK_ORDER at 0.5.
C25_NeverUnknownWithPayload ==
    LET r == result.r
    IN  (/\ pc = "classified"
         /\ \E j \in 1..Len(r.segment_pages) : Resolves(r.segment_pages[j])) =>
            /\ r.document_type \in {DocumentType.WORK_ORDER, DocumentType.TURNOVER}
            /\ r.facts.wo_total = r.facts.turnover_total =>
                  r.confidence = FRatio(1, 2)
            /\ (r.facts.wo_total = FZero /\ r.facts.turnover_total = FZero) =>
                  r.document_type = DocumentType.WORK_ORDER

\* succeeded pages of the i-th boundary
SucceededIn(i) ==
    {p \in boundaries[i][1]..boundaries[i][2] : analyses[p].success}

\* C26: a succeeded record of PageAnalyzer holds its page number inside the
\* payload only, and DocumentClassifier looks for a top-level page_number; so
\* on the records of analyze_all_pages DocumentClassifier.classify_all_segments
\* returns UNKNOWN with confidence 0.0 for every boundary, while
\* FixedClassifier resolves every succeeded page by its position.
C26_AnalyzerRecordsUnresolved ==
    pc = "classified_all" =>
        /\ \A p \in 1..Len(analyses) :
              analyses[p].success =>
                  analyses[p].page_number = 0 /\ analyses[p].data.page_number = p
        /\ Len(results.list) = Len(boundaries)
        /\ results.classifier = "doc" =>
              \A i \in 1..Len(boundaries) :
                  /\ results.list[i].document_type = DocumentType.UNKNOWN
                  /\ results.list[i].confidence = FZero
        /\ results.classifier = "fixed" =>
              \A i \in 1..Len(boundaries) :
                  /\ results.list[i].facts.valid = Cardinality(SucceededIn(i))
                  /\ SucceededIn(i) # {} =>
                        results.list[i].document_type # DocumentType.UNKNOWN

\* two succeeded pages, the second opens a boundary: DocumentClassifier
\* reports both boundaries UNKNOWN
C26_Witness ==
    /\ pc = "classified_all"
    /\ results.classifier = "doc"
    /\ Len(analyses) = 2
    /\ analyses[1].success /\ analyses[2].success
    /\ boundaries = << <<1, 1>>, <<2, 2>> >>
    /\ results.list[1].document_type = DocumentType.UNKNOWN
    /\ results.list[2].document_type = DocumentType.UNKNOWN

\* record i declares the top-level page_number i
NumberedByPosition == \A i \in 1..Len(analyses) : analyses[i].page_number = i

\* every succeeded record has a non-empty payload
PayloadsNonEmpty == \A i \in 1..Len(analyses) : analyses[i].success => ~analyses[i].data.empty

\* no payload holds the number of another page
EmbeddedNumbersAgree ==
    \A i \in 1..Len(analyses) :
        analyses[i].success => analyses[i].data.page_number \in {0, i}

SameVerdict(a, b) ==
    /\ a.document_type = b.document_type
    /\ a.confidence = b.confidence
    /\ a.scores = b.scores

\* the two classifiers agree on the page range just classified
ClassifiersAgree ==
    SameVerdict(DocClassifySegment(result.r.segment_pages, analyses),
                FixedClassifySegment(result.r.segment_pages, analyses))

\* the claim as stated: with record i declaring page_number i and no empty
\* payload, both classifiers return the same type, confidence and scores
C27_SameVerdictWhenNumbered ==
    (pc = "classified" /\ NumberedByPosition /\ PayloadsNonEmpty) => ClassifiersAgree

\* C27: when record i declares the top-level page_number i, every succeeded
\* record has a non-empty payload and no payload holds the number of another
\* page, FixedClassifier.classify_segment and DocumentClassifier.classify_segment
\* return the same document_type, confidence and scores for every page range;
\* with numbers that agree, they differ only on a range that holds a succeeded
\* record with an empty payload.
C27_SameVerdictWhenNumbersAgree ==
    (pc = "classified" /\ NumberedByPosition /\ EmbeddedNumbersAgree) =>
        /\ PayloadsNonEmpty => ClassifiersAgree
        /\ ~ClassifiersAgree =>
              \E j \in 1..Len(result.r.segment_pages) :
                  LET p == result.r.segment_pages[j]
                  IN  analyses[p].success /\ analyses[p].data.empty

\* a failed page and a page with every TURNOVER signal, numbered by position:
\* both classifiers report the range of the two as TURNOVER at 0.95
C27_Witness ==
    /\ pc = "classified"
    /\ NumberedByPosition /\ PayloadsNonEmpty /\ EmbeddedNumbersAgree
    /\ Len(analyses) = 2
    /\ ~analyses[1].success /\ analyses[2].success
    /\ result.r.segment_pages = <<1, 2>>
    /\ result.classifier = "fixed"
    /\ result.r.document_type = DocumentType.TURNOVER
    /\ result.r.confidence = FRatio(95, 100)
    /\ ClassifiersAgree

\* the pages lists of a segment list, one after the other
RECURSIVE AllPages(_, _)
AllPages(segs, i) ==
    IF i > Len(segs) THEN << >> ELSE segs[i].pages \o AllPages(segs, i + 1)

\* index in segs of the segment that entry k of out started as
OriginOf(segs, out, k) ==
    CHOOSE i \in 1..Len(segs) : segs[i].start_page = out[k].start_page

\* C28: merge_single_page_segments keeps the concatenation of the pages lists
\* and the order of the segments, never returns more segments than it was
\* given, returns a list of at most one segment as it is, leaves start_page,
\* main_type and confidence of an absorbing segment as they were, and returns
\* every segment that neither absorbs nor is absorbed unchanged.
C28_MergeFrame ==
    [][MergeStep =>
        LET segs == segments
            out == merged'
        IN  /\ AllPages(out, 1) = AllPages(segs, 1)
            /\ Len(out) <= Len(segs)
            /\ Len(segs) <= 1 => out = segs
            /\ \A k \in 1..Len(out) :
                  /\ \E i \in 1..Len(segs) : segs[i].start_page = out[k].start_page
                  /\ LET i == OriginOf(segs, out, k)
                     IN  /\ k < Len(out) => i < OriginOf(segs, out, k + 1)
                         /\ out[k].start_page = segs[i].start_page
                         /\ out[k].main_type = segs[i].main_type
                         /\ out[k].confidence = segs[i].confidence
                         /\ out[k].end_page = segs[i].end_page => out[k] = segs[i]
                         /\ out[k].end_page = segs[i].end_page => segments'[i] = segs[i]]_vars

\* three segments in, two out: the first absorbed the second and kept its
\* confidence 0.6, the third came back as it was
C28_Witness ==
    /\ pc = "merged"
    /\ Len(segments) = 3
    /\ Len(merged) = 2
    /\ merged[1].pages = <<1, 2, 3>>
    /\ merged[1].start_page = 1
    /\ merged[1].confidence = Rat(3, 5)
    /\ merged[2] = segments[3]
    /\ merged[2].main_type = "WORK_ORDER"
    /\ merged[2].confidence = Rat(2, 5)

\* segments j+1 .. l are a run of one-page segments below the threshold that
\* have the main type of segment j
RunAfter(segs, j, l) ==
    /\ j < l
    /\ \A m \in (j + 1)..l :
          /\ segs[m].end_page = segs[m].start_page
          /\ RLt(segs[m].confidence, DefaultMinConfidence)
          /\ segs[m].main_type = segs[j].main_type

\* the label of j followed by " + <sub_type>" for each of j+1 .. l
RunLabel(segs, j, l) ==
    JoinWith([m \in 1..(l - j + 1) |-> Str(segs[j + m - 1].sub_type)], " + ", 1)

\* C29: a run of k consecutive one-page segments, each below the threshold
\* and of the main type of the segment before the run, is absorbed entirely
\* into the entry of that segment; when that segment is an entry of its own
\* and the run is maximal, the entry's label is the segment's label followed
\* by one " + <sub_type>" per absorbed segment, its end_page is the last page
\* of the run and it holds k pages more.
C29_RunAbsorbedIntoOne ==
    [][MergeStep =>
        LET segs == segments
            out == merged'
        IN  \A j \in 1..Len(segs) : \A l \in j..Len(segs) :
                RunAfter(segs, j, l) =>
                    LET e == out[EntryOf(out, segs, j)]
                    IN  /\ \A m \in (j + 1)..l : EntryOf(out, segs, m) = EntryOf(out, segs, j)
                        /\ e.end_page >= segs[l].end_page
                        /\ (/\ e.start_page = segs[j].start_page
                            /\ l < Len(segs) => ~RunAfter(segs, j, l + 1)) =>
                              /\ e.end_page = segs[l].end_page
                              /\ e.sub_type = RunLabel(segs, j, l)
                              /\ Len(e.pages) = Len(segs[j].pages) + (l - j)]_vars

\* a P&L segment followed by two one-page segments of confidence 0.4: one
\* entry is returned, labelled with all three sub-types
C29_Witness ==
    /\ pc = "merged"
    /\ Len(segments) = 3
    /\ Len(merged) = 1
    /\ merged[1].sub_type = "P&L Statement + Balance Sheet + P&L Statement"
    /\ merged[1].end_page = segments[3].end_page
    /\ segments[3].confidence = Rat(2, 5)

\* the .value strings of the sub-type enum of a main type
CatalogValues(main_type) ==
    IF main_type = "TURNOVER"
    THEN {SubTypeValue(TurnoverSubType[i]) : i \in 1..Len(TurnoverSubType)}
    ELSE IF main_type = "WORK_ORDER"
    THEN {SubTypeValue(WorkOrderSubType[i]) : i \in 1..Len(WorkOrderSubType)}
    ELSE {}

\* labels handed to the two table functions besides those of the segments
LabelPool ==
    CatalogValues("TURNOVER") \cup CatalogValues("WORK_ORDER") \cup
    { "Unknown", "other", "P&L Statement ", "Purchase Order + Completion Certificate",
      "P&L Statement + CA Certificate", "Other: Gratuity Note", None }

Unrouted(segment) == ~needs_extraction(segment) /\ priority(segment) = 99

\* C30: requires_extraction is true only for a sub_type that is exactly a
\* catalog sub-type of the main type, and get_subtype_priority is 99 for a
\* string that is no catalog sub-type; so of the segments the pipeline
\* returns, each one whose sub_type is no catalog sub-type of its main type,
\* in particular each one with a combined label "A + B" and each UNKNOWN
\* one, has requires_extraction = false and priority 99, also when A and B
\* are each extraction-eligible.
C30_CombinedAndUnknownUnrouted ==
    /\ \A mt \in {"TURNOVER", "WORK_ORDER", "UNKNOWN", None} : \A label \in LabelPool :
          /\ requires_extraction(mt, label) => label \in CatalogValues(mt)
          /\ label \notin CatalogValues("TURNOVER") \cup CatalogValues("WORK_ORDER")
                => get_subtype_priority(mt, label) = 99
    /\ pc \in {"merged", "numbered"} =>
          \A k \in 1..Len(merged) :
             LET segment == merged[k]
             IN  /\ needs_extraction(segment)
                    => segment.sub_type \in CatalogValues(segment.main_type)
                 /\ segment.sub_type \notin CatalogValues(segment.main_type)
                    => Unrouted(segment)
                 /\ Contains(Str(segment.sub_type), " + ") => Unrouted(segment)
                 /\ segment.main_type = "UNKNOWN" => Unrouted(segment)

\* a returned list that holds an UNKNOWN segment and a segment combined from
\* a Purchase Order page and a Completion Certificate page, each of which
\* alone requires extraction
C30_Witness ==
    /\ pc = "numbered"
    /\ \E k \in 1..Len(merged) : merged[k].main_type = "UNKNOWN"
    /\ \E k \in 1..Len(merged) :
          /\ merged[k].sub_type = "Purchase Order + Completion Certificate"
          /\ merged[k].main_type = "WORK_ORDER"
          /\ requires_extraction("WORK_ORDER", "Purchase Order")
          /\ requires_extraction("WORK_ORDER", "Completion Certificate")
          /\ Unrouted(merged[k])

====
